---- MODULE Spec2Model ----
(***************************************************************************)
(* geecache: LRU list (lru.Cache), byte-accounted cache wrapper (cache),   *)
(* singleflight groups, the Group Get/Set/Remove protocol, the registry of *)
(* groups and the consistent-hash ring.                                    *)
(*                                                                         *)
(* The specifications that share the module:                               *)
(*   SpecLRU    a stand-alone lru.Cache driven by Add/Get/Remove/...       *)
(*   SpecCache  a stand-alone cache wrapper (nbytes accounting)            *)
(*   SpecSeq    one Group without peers, one caller                        *)
(*   Spec       one Group with concurrent callers                          *)
(*   SpecLat    concurrent Gets served by a peer, with timed fetches       *)
(*   SpecArgs   one caller passing the empty key and the nil sink          *)
(*   SpecExp    one caller, Sets with an expiry, an advancing clock        *)
(*   SpecReg    NewGroup, GetGroup, DeregisterGroup from two goroutines    *)
(*   SpecRing   a consistenthash.Map under Add and Get                     *)
(*   SpecSF     a stand-alone singleflight.Group under Do                  *)
(*   SpecPick   a PeerPicker (server or HTTPPool) under Set and PickPeer   *)
(*   SpecFair   Spec with every started call scheduled again               *)
(***************************************************************************)
EXTENDS Integers, Sequences, FiniteSets, TLC

VARIABLES
    now,        \* reading of the injectable clock (lru.Cache.Now / NowFunc)
    lru,        \* the stand-alone lru.Cache: [MaxEntries, ll, cache]
    lastOp,     \* the last LRU operation with its result and the callbacks it fired
    onlyAdds,   \* TRUE while the LRU has only seen Adds of pairwise distinct keys
    addSeq,     \* the keys of those Adds, in call order
    evSeq,      \* the keys reported to OnEvicted during those Adds, in order
    cacheBytes, \* Group.cacheBytes
    peers,      \* the peers known to Group.peers (empty for NoPeers)
    mainCache,  \* Group.mainCache: [nbytes, lru]
    hotCache,   \* Group.hotCache: [nbytes, lru]
    loadGroup,  \* Group.loadGroup: [mu, m]
    setGroup,   \* Group.setGroup: [mu, m]
    removeGroup, \* Group.removeGroup: [mu, m]
    Stats,      \* Group.Stats
    pc,         \* per goroutine: the statement it is about to execute
    op,         \* per goroutine: the Group call it is executing and its arguments
    fr,         \* per goroutine: the locals of that call
    sink,       \* per goroutine: the value held by the caller's Sink
    result,     \* per goroutine: what its last call returned
    budget,     \* per goroutine: the number of calls it may still start
    crashed,    \* an unrecovered panic has ended the process
    loaderCalls, \* per key: number of Getter.Get invocations so far
    onlyGetsOf, \* the key, while all traffic so far was Get of that one key
    last,       \* the call that last returned without overlapping any other
    groups,     \* the package's registry: name -> *Group
    mu,         \* the registry's sync.RWMutex: [w, r]
    initPeerServerOnce, \* the sync.Once of newGroup has fired
    created,    \* number of Group objects allocated so far
    rcall,      \* per goroutine: its NewGroup/GetGroup/DeregisterGroup call
    ring,       \* a consistenthash.Map: [hash, replicas, keys, hashMap]
    ringOp,     \* the last Map.Get with its result, and the peers added
    picker,     \* a PeerPicker (server or HTTPPool) and its last PickPeer
    flight,     \* a stand-alone singleflight.Group: the map m, key -> *call
    calls,      \* the call objects allocated by Do, by address
    doer        \* per goroutine: its singleflight Do call

\* the state of the registry, of the hash ring and of the stand-alone
\* singleflight group; the LRU and the Group never touch it
regVars == <<groups, mu, initPeerServerOnce, created, rcall>>

ringVars == <<ring, ringOp, picker>>

flightVars == <<flight, calls, doer>>

libVars == <<regVars, ringVars, flightVars>>

\* the clock, the LRU list and the Group
coreVars == <<now, lru, lastOp, onlyAdds, addSeq, evSeq, cacheBytes, peers,
              mainCache, hotCache, loadGroup, setGroup, removeGroup, Stats, pc,
              op, fr, sink, result, budget, crashed, loaderCalls, onlyGetsOf,
              last>>

lruVars == <<lru, lastOp, onlyAdds, addSeq, evSeq, libVars>>

groupVars == <<cacheBytes, peers, mainCache, hotCache, loadGroup, setGroup,
               removeGroup, Stats, pc, op, fr, sink, result, budget, crashed,
               loaderCalls, onlyGetsOf, last, libVars>>

----------------------------------------------------------------------------
(* Bounds and input domains *)

\* the zero time.Time (IsZero): an entry with this expiry never expires
NoExpire == 0

\* last reading of the clock
MaxTime == 2

\* longest container/list the model lets Add build
MaxListLen == 3

\* adds stop once nbytes has fallen this far below zero
MaxDeficit == 3

\* largest MaxEntries of the stand-alone LRU
MaxMaxEntries == 2

KeyA == <<"a">>

KeyB == <<"b">>

KeyC == <<"c">>

LruKeys == {KeyA, KeyB, KeyC}

LruValues == {1234, 1235}

Expiries == {NoExpire, 1}

----------------------------------------------------------------------------
(* lru.Cache.  ll is the container/list, front (most recent) at index 1.   *)
(* cache is the index map; an element pointer is the element's position    *)
(* in ll, so every list operation shifts the positions stored in the map.  *)

entry(key, value, expire) == [key |-> key, value |-> value, expire |-> expire]

New(maxEntries) == [MaxEntries |-> maxEntries, ll |-> <<>>, cache |-> <<>>]

RemoveAt(s, i) == SubSeq(s, 1, i - 1) \o SubSeq(s, i + 1, Len(s))

\* list.MoveToFront(e) for the element at position i, map pointers following
MoveToFront(c, i) ==
    [c EXCEPT !.ll = <<c.ll[i]>> \o RemoveAt(c.ll, i),
              !.cache = [k \in DOMAIN c.cache |->
                            IF c.cache[k] = i THEN 1
                            ELSE IF c.cache[k] < i THEN c.cache[k] + 1
                            ELSE c.cache[k]]]

\* list.PushFront(&entry{...}) followed by c.cache[key] = ele
PushFront(c, e) ==
    [c EXCEPT !.ll = <<e>> \o c.ll,
              !.cache = [k \in (DOMAIN c.cache) \cup {e.key} |->
                            IF k = e.key THEN 1 ELSE c.cache[k] + 1]]

\* the result of an LRU operation: the cache, the OnEvicted calls in order,
\* and (for Get) the value and the hit flag
Res(c, ev, value, ok) == [c |-> c, ev |-> ev, value |-> value, ok |-> ok]

NoValue == "nil"

removeElement(c, i) ==
    LET kv == c.ll[i]
        rest == (DOMAIN c.cache) \ {kv.key}
    IN Res([c EXCEPT !.ll = RemoveAt(c.ll, i),
                     !.cache = [k \in rest |->
                                   IF c.cache[k] > i THEN c.cache[k] - 1
                                   ELSE c.cache[k]]],
           <<[key |-> kv.key, value |-> kv.value]>>, NoValue, FALSE)

\* RemoveOldest taking the element at the front of the list instead
RemoveOldestFront(c) ==
    IF Len(c.ll) = 0 THEN Res(c, <<>>, NoValue, FALSE)
    ELSE removeElement(c, 1)

RemoveOldest(c) ==
    IF Len(c.ll) = 0 THEN Res(c, <<>>, NoValue, FALSE)
    ELSE removeElement(c, Len(c.ll))

Add(c, key, value, expire) ==
    LET present == key \in DOMAIN c.cache
        ev1 == IF present
               THEN <<[key |-> key, value |-> c.ll[c.cache[key]].value]>>
               ELSE <<>>
        c1 == IF present
              THEN LET m == MoveToFront(c, c.cache[key])
                   IN [m EXCEPT !.ll[1] = entry(key, value, expire)]
              ELSE c
        \* no return after the update: the push below runs in both cases
        c2 == PushFront(c1, entry(key, value, expire))
    IN IF c2.MaxEntries # 0 /\ Len(c2.ll) > c2.MaxEntries
       THEN LET r == RemoveOldest(c2)
            IN Res(r.c, ev1 \o r.ev, NoValue, FALSE)
       ELSE Res(c2, ev1, NoValue, FALSE)

\* an entry that is never taken for expired
ExpiredNever(expire, t) == FALSE

\* !entry.expire.IsZero() && entry.expire.Before(c.Now())
Expired(expire, t) == expire # NoExpire /\ expire < t

Get(c, key, t) ==
    IF key \in DOMAIN c.cache
    THEN LET i == c.cache[key]
             e == c.ll[i]
         IN IF Expired(e.expire, t)
            THEN removeElement(c, i)
            ELSE Res(MoveToFront(c, i), <<>>, e.value, TRUE)
    ELSE Res(c, <<>>, NoValue, FALSE)

Remove(c, key) ==
    IF key \in DOMAIN c.cache
    THEN removeElement(c, c.cache[key])
    ELSE Res(c, <<>>, NoValue, FALSE)

LruLen(c) == Len(c.ll)

----------------------------------------------------------------------------
(* ByteView and the cache wrapper around lru.Cache (nbytes accounting).    *)

view(b, e) == [b |-> b, e |-> e]

\* ByteView{}: no bytes, zero expiry
ZeroView == view(<<>>, NoExpire)

ViewLen(v) == Len(v.b)

RECURSIVE EvictedBytes(_)
\* what the OnEvicted closure of cache.add subtracts from nbytes, summed over
\* the callbacks one LRU operation fired
EvictedBytes(ev) ==
    IF ev = <<>> THEN 0
    ELSE Len(ev[1].key) + ViewLen(ev[1].value) + EvictedBytes(Tail(ev))

\* the zero cache; its lru is built by the first add with MaxEntries unset
NewCache == [nbytes |-> 0, lru |-> New(0)]

add(c, key, value) ==
    LET r == Add(c.lru, key, value, value.e)
    IN [nbytes |-> c.nbytes - EvictedBytes(r.ev) + Len(key) + ViewLen(value),
        lru |-> r.c]

get(c, key, t) ==
    LET r == Get(c.lru, key, t)
    IN [c |-> [nbytes |-> c.nbytes - EvictedBytes(r.ev), lru |-> r.c],
        value |-> IF r.ok THEN r.value ELSE ZeroView, ok |-> r.ok]

\* a remove that leaves the entry in place
removeNothing(c, key) == c

remove(c, key) ==
    LET r == Remove(c.lru, key)
    IN [nbytes |-> c.nbytes - EvictedBytes(r.ev), lru |-> r.c]

removeOldest(c) ==
    LET r == RemoveOldest(c.lru)
    IN [nbytes |-> c.nbytes - EvictedBytes(r.ev), lru |-> r.c]

bytes(c) == c.nbytes

items(c) == LruLen(c.lru)

----------------------------------------------------------------------------
(* Group: configuration, callers and their frames.                         *)

Procs == {"g1", "g2"}

NoProc == "none"

PeerB == "B"

PeerC == "C"

\* the nil ProtoGetter PickPeer returns for a locally owned key
NoPeer == "nil"

GroupKeys == {KeyA, KeyB, KeyC}

EmptyKey == <<>>

\* Group.cacheBytes of the groups explored
CacheCap == 3

\* what the Getter stores in the sink for a key
LoaderValue(key) == IF key = KeyB THEN <<1, 1, 1>> ELSE <<1>>

\* what the owner peer answers for a key
PeerValue(key) == <<2>>

SetValues == {<<3>>, <<4>>}

\* an interface{} holding nil, or holding a ByteView
NilIface == [isNil |-> TRUE, v |-> ZeroView]

Iface(v) == [isNil |-> FALSE, v |-> v]

\* seen: a Get has followed the call since it returned
NoTag == [kind |-> "none", key |-> EmptyKey, value |-> <<>>,
          expire |-> NoExpire, seen |-> FALSE]

NoFrame == [viewi |-> NilIface, err |-> "nil", destPopulated |-> FALSE,
            value |-> ZeroView, cache |-> "main", ret |-> "idle",
            after |-> "idle", mainBytes |-> 0, victim |-> "main",
            owner |-> NoPeer, pend |-> {}, dur |-> 0,
            hit |-> FALSE, missed |-> FALSE, loaded |-> FALSE,
            solo |-> FALSE, tag |-> NoTag, twin |-> FALSE,
            ran |-> FALSE, ownerErr |-> FALSE, bcErr |-> FALSE,
            sent |-> [peer \in {PeerB, PeerC} |-> 0],
            peerOk |-> FALSE, peerErr |-> "nil", ctxDead |-> FALSE,
            loads0 |-> 0, at |-> 0, hitAt |-> 0, stale |-> FALSE,
            pre |-> [main |-> NewCache, hot |-> NewCache, PeerLoads |-> 0,
                     PeerErrors |-> 0]]

NoCall == [kind |-> "none", key |-> EmptyKey, value |-> <<>>,
           expire |-> NoExpire, hot |-> FALSE, nilDest |-> FALSE]

NoSink == [set |-> FALSE, v |-> ZeroView]

NewFlight == [mu |-> NoProc, m |-> <<>>]

\* lookupCache, populateCache, localSet, localRemove that never skip
CachingOffNever == FALSE

\* if g.cacheBytes <= 0 { return }
CachingOff == cacheBytes <= 0

ZeroStats == [Gets |-> 0, CacheHits |-> 0, GetFromPeersLatencyLower |-> 0,
              PeerLoads |-> 0, PeerErrors |-> 0, Loads |-> 0,
              LoadsDeduped |-> 0, LocalLoads |-> 0, LocalLoadErrs |-> 0]

\* a Group as newGroup leaves it, with callers that have not called yet
NewGroupState(cb, ps, bud) ==
    /\ cacheBytes = cb
    /\ peers = ps
    /\ mainCache = NewCache
    /\ hotCache = NewCache
    /\ loadGroup = NewFlight
    /\ setGroup = NewFlight
    /\ removeGroup = NewFlight
    /\ Stats = ZeroStats
    /\ pc = [p \in Procs |-> "idle"]
    /\ op = [p \in Procs |-> NoCall]
    /\ fr = [p \in Procs |-> NoFrame]
    /\ sink = [p \in Procs |-> NoSink]
    /\ result = [p \in Procs |-> "none"]
    /\ budget = bud
    /\ crashed = FALSE
    /\ loaderCalls = [k \in GroupKeys \cup {EmptyKey} |-> 0]
    /\ onlyGetsOf = [st |-> "none", key |-> EmptyKey]
    /\ last = NoTag

NoBudget == [p \in Procs |-> 0]

LruIdle ==
    /\ lru = New(0)
    /\ lastOp = [op |-> "none", key |-> KeyA, value |-> NoValue,
                 expire |-> NoExpire, present |-> FALSE, old |-> NoValue,
                 ok |-> FALSE, ev |-> <<>>]
    /\ onlyAdds = TRUE
    /\ addSeq = <<>>
    /\ evSeq = <<>>

----------------------------------------------------------------------------
(* The registry of groups: the package variables mu and groups, with      *)
(* NewGroup, GetGroup and DeregisterGroup called from several goroutines. *)

RegProcs == {"r1", "r2"}

GroupNames == {"scores", "users"}

\* the nil *Group
NilGroup == 0

\* number of Group objects the goroutines may allocate in all
MaxGroups == 3

\* number of registry calls of one goroutine
MaxRegCalls == 2

NoRegCall == [pc |-> "idle", op |-> "none", name |-> "scores", ret |-> NilGroup,
              panicked |-> FALSE, left |-> 0]

RegistryIdle ==
    /\ groups = <<>>
    /\ mu = [w |-> NoProc, r |-> {}]
    /\ initPeerServerOnce = FALSE
    /\ created = 0
    /\ rcall = [r \in RegProcs |-> NoRegCall]

\* a writer that takes the lock whoever holds it
WriteFreeAlways == TRUE

\* mu.Lock() returns: no writer and no reader holds the lock
WriteFree == mu.w = NoProc /\ mu.r = {}

\* mu.RLock() returns: no writer holds the lock
ReadFree == mu.w = NoProc

\* what no registry function touches
regFrame == <<coreVars, ringVars, flightVars>>

\* a goroutine calls NewGroup, GetGroup or DeregisterGroup; newGroup
\* panics on a nil Getter before it asks for the lock
RegCall(r, name, opName, nilGetter) ==
    /\ rcall[r].pc = "idle"
    /\ rcall[r].left > 0
    /\ opName = "NewGroup" => created < MaxGroups
    /\ nilGetter => opName = "NewGroup"
    /\ rcall' = [rcall EXCEPT ![r] =
                    [pc |-> IF nilGetter THEN "idle" ELSE "lock",
                     op |-> opName, name |-> name, ret |-> NilGroup,
                     panicked |-> nilGetter, left |-> rcall[r].left - 1]]
    /\ UNCHANGED <<groups, mu, initPeerServerOnce, created, regFrame>>

\* mu.Lock() of newGroup and DeregisterGroup, mu.RLock() of GetGroup
RegLock(r) ==
    /\ rcall[r].pc = "lock"
    /\ IF rcall[r].op = "GetGroup"
       THEN ReadFree /\ mu' = [mu EXCEPT !.r = @ \cup {r}]
       ELSE WriteFree /\ mu' = [mu EXCEPT !.w = r]
    /\ rcall' = [rcall EXCEPT ![r].pc = "body"]
    /\ UNCHANGED <<groups, initPeerServerOnce, created, regFrame>>

\* newGroup under the lock: the Once, the duplicate test (panic, with the
\* deferred Unlock) and the allocation of the Group
RegCheck(r) ==
    /\ rcall[r].pc = "body" /\ rcall[r].op = "NewGroup"
    /\ initPeerServerOnce' = TRUE
    /\ IF rcall[r].name \in DOMAIN groups
       THEN /\ rcall' = [rcall EXCEPT ![r].pc = "idle", ![r].panicked = TRUE]
            /\ mu' = [mu EXCEPT !.w = IF @ = r THEN NoProc ELSE @]
            /\ UNCHANGED created
       ELSE /\ rcall' = [rcall EXCEPT ![r].pc = "store", ![r].ret = created + 1]
            /\ created' = created + 1
            /\ UNCHANGED mu
    /\ UNCHANGED <<groups, regFrame>>

\* groups[name] = g; return g (deferred Unlock)
RegStore(r) ==
    /\ rcall[r].pc = "store"
    /\ groups' = [n \in (DOMAIN groups) \cup {rcall[r].name} |->
                     IF n = rcall[r].name THEN rcall[r].ret ELSE groups[n]]
    /\ mu' = [mu EXCEPT !.w = IF @ = r THEN NoProc ELSE @]
    /\ rcall' = [rcall EXCEPT ![r].pc = "idle"]
    /\ UNCHANGED <<initPeerServerOnce, created, regFrame>>

\* GetGroup: g := groups[name]
RegRead(r) ==
    /\ rcall[r].pc = "body" /\ rcall[r].op = "GetGroup"
    /\ rcall' = [rcall EXCEPT ![r].pc = "runlock",
                              ![r].ret = IF rcall[r].name \in DOMAIN groups
                                         THEN groups[rcall[r].name]
                                         ELSE NilGroup]
    /\ UNCHANGED <<groups, mu, initPeerServerOnce, created, regFrame>>

\* GetGroup: mu.RUnlock(); return g
RegRUnlock(r) ==
    /\ rcall[r].pc = "runlock"
    /\ mu' = [mu EXCEPT !.r = @ \ {r}]
    /\ rcall' = [rcall EXCEPT ![r].pc = "idle"]
    /\ UNCHANGED <<groups, initPeerServerOnce, created, regFrame>>

\* DeregisterGroup: delete(groups, name)
RegDelete(r) ==
    /\ rcall[r].pc = "body" /\ rcall[r].op = "DeregisterGroup"
    /\ groups' = [n \in (DOMAIN groups) \ {rcall[r].name} |-> groups[n]]
    /\ rcall' = [rcall EXCEPT ![r].pc = "unlock"]
    /\ UNCHANGED <<mu, initPeerServerOnce, created, regFrame>>

\* DeregisterGroup: mu.Unlock()
RegUnlock(r) ==
    /\ rcall[r].pc = "unlock"
    /\ mu' = [mu EXCEPT !.w = IF @ = r THEN NoProc ELSE @]
    /\ rcall' = [rcall EXCEPT ![r].pc = "idle"]
    /\ UNCHANGED <<groups, initPeerServerOnce, created, regFrame>>

----------------------------------------------------------------------------
(* consistenthash.Map: the ring of virtual points that PickPeer consults. *)

RingPeers == {"B", "C"}

RingKeys == {"a"}

\* largest replicas of a Map
MaxReplicas == 2

\* the hash function of a Map takes values in 0..MaxHash
MaxHash == 2

\* largest number of points on a ring
MaxRingLen == 4

Digits == <<"0", "1", "2", "3", "4", "5", "6", "7", "8", "9">>

RECURSIVE Itoa(_)
\* strconv.Itoa of a non-negative int
Itoa(i) == IF i < 10 THEN Digits[i + 1]
           ELSE Itoa(i \div 10) \o Digits[(i % 10) + 1]

\* the strings a Map hashes: strconv.Itoa(i) + key of Add, key of Get
RingStrings == {Itoa(i) \o q : i \in 0..(MaxReplicas - 1), q \in RingPeers}
               \cup RingKeys

\* the hash functions a Map is created with
Hashes == [RingStrings -> 0..MaxHash]

\* consistenthash.New(replicas, fn)
NewRing(replicas, fn) ==
    [hash |-> fn, replicas |-> replicas, keys |-> <<>>, hashMap |-> <<>>]

NoRingOp == [did |-> FALSE, key |-> "a", ret |-> "", added |-> {}]

\* the handle PickPeer returns for a peer without a client: nil
NoHandle == ""

\* the address of a process that is none of RingPeers
OtherAddr == "A"

\* a picker fresh from NewServer(addr) / NewHTTPPool(self): consHash / peers
\* is a nil pointer (set = FALSE), the map of clients is nil
NewPicker(impl, self, fn) ==
    [impl |-> impl, self |-> self, hash |-> fn, set |-> FALSE,
     clients |-> {}, did |-> FALSE, key |-> "a", handle |-> NoHandle,
     ok |-> FALSE, panic |-> FALSE]

RingIdle ==
    /\ ring = NewRing(0, [x \in RingStrings |-> 0])
    /\ ringOp = NoRingOp
    /\ picker = NewPicker("server", OtherAddr, [x \in RingStrings |-> 0])

RECURSIVE Insert(_, _)
\* x put into the sorted ks
Insert(ks, x) ==
    IF ks = <<>> THEN <<x>>
    ELSE IF x <= Head(ks) THEN <<x>> \o ks
    ELSE <<Head(ks)>> \o Insert(Tail(ks), x)

RECURSIVE SortInts(_)
\* sort.Ints
SortInts(ks) == IF ks = <<>> THEN <<>> ELSE Insert(SortInts(Tail(ks)), Head(ks))

\* a search that always answers index 0
SearchZero(lo, hi, ks, h) == 0

RECURSIVE Search(_, _, _, _)
\* sort.Search(len(m.keys), func(i) { return m.keys[i] >= hash }): binary
\* search on the indices lo..hi-1, counted from 0
Search(lo, hi, ks, h) ==
    IF lo >= hi THEN lo
    ELSE LET mid == (lo + hi) \div 2 IN
         IF ks[mid + 1] >= h THEN Search(lo, mid, ks, h)
         ELSE Search(mid + 1, hi, ks, h)

RECURSIVE AddPoints(_, _, _)
\* the inner loop of Add for one key, from replica i on
AddPoints(m, key, i) ==
    IF i >= m.replicas THEN m
    ELSE LET hash == m.hash[Itoa(i) \o key] IN
         AddPoints([m EXCEPT !.keys = Append(@, hash),
                             !.hashMap = [x \in (DOMAIN @) \cup {hash} |->
                                            IF x = hash THEN key ELSE @[x]]],
                   key, i + 1)

RECURSIVE AddKeys(_, _)
\* the outer loop of Add
AddKeys(m, keys) ==
    IF keys = <<>> THEN m
    ELSE AddKeys(AddPoints(m, Head(keys), 0), Tail(keys))

\* Map.Add(keys...)
MapAdd(m, keys) == LET n == AddKeys(m, keys) IN [n EXCEPT !.keys = SortInts(@)]

\* Map.Get(key)
MapGet(m, key) ==
    IF Len(m.keys) = 0 THEN ""
    ELSE LET idx == Search(0, Len(m.keys), m.keys, m.hash[key]) IN
         m.hashMap[m.keys[(idx % Len(m.keys)) + 1]]

\* what no Map method touches
ringFrame == <<coreVars, regVars, flightVars>>

\* the lists of peers one Add is called with
AddLists == {<<q>> : q \in RingPeers}
            \cup {<<q, r>> : q \in RingPeers, r \in RingPeers}

RingAdd(keys) ==
    /\ Len(ring.keys) + ring.replicas * Len(keys) <= MaxRingLen
    /\ ring' = MapAdd(ring, keys)
    /\ ringOp' = [ringOp EXCEPT !.did = FALSE,
                                !.added = @ \cup {keys[i] : i \in DOMAIN keys}]
    /\ UNCHANGED <<picker, ringFrame>>

RingGet(key) ==
    /\ ringOp' = [ringOp EXCEPT !.did = TRUE, !.key = key,
                                !.ret = MapGet(ring, key)]
    /\ UNCHANGED <<ring, picker, ringFrame>>

\* defaultReplicas (50 in the source): the points a picker's ring carries
\* for each peer
defaultReplicas == MaxReplicas

\* the lists of peers one SetPeers / Set is called with
SetLists == {<<>>} \cup AddLists

\* server.SetPeers(peersAddr...) and HTTPPool.Set(peers...): a fresh ring
\* with the peers added and a fresh map with one client per peer (the
\* addresses drawn here are well-formed, validPeerAddr accepts them)
PickerSet(peersAddr) ==
    /\ ring' = MapAdd(NewRing(defaultReplicas, picker.hash), peersAddr)
    /\ picker' = [picker EXCEPT !.set = TRUE, !.did = FALSE,
                    !.clients = {peersAddr[i] : i \in DOMAIN peersAddr}]
    /\ UNCHANGED <<ringOp, ringFrame>>

\* s.clients[peerAddr] / p.httpGetters[peer]: nil for a missing key
ClientOf(peerAddr) == IF peerAddr \in picker.clients THEN peerAddr ELSE NoHandle

\* server.PickPeer(key)
ServerPickPeer(key) ==
    IF ~picker.set
    THEN [picker EXCEPT !.did = TRUE, !.key = key, !.panic = TRUE]
    ELSE LET peerAddr == MapGet(ring, key) IN
         IF peerAddr = picker.self
         THEN [picker EXCEPT !.did = TRUE, !.key = key, !.handle = NoHandle,
                             !.ok = FALSE]
         ELSE [picker EXCEPT !.did = TRUE, !.key = key,
                             !.handle = ClientOf(peerAddr), !.ok = TRUE]

\* HTTPPool.PickPeer(key)
PoolPickPeer(key) ==
    IF ~picker.set
    THEN [picker EXCEPT !.did = TRUE, !.key = key, !.panic = TRUE]
    ELSE LET peer == MapGet(ring, key) IN
         IF peer # "" /\ peer # picker.self
         THEN [picker EXCEPT !.did = TRUE, !.key = key,
                             !.handle = ClientOf(peer), !.ok = TRUE]
         ELSE [picker EXCEPT !.did = TRUE, !.key = key, !.handle = NoHandle,
                             !.ok = FALSE]

\* PickPeer of either picker; a nil consHash / peers is dereferenced by
\* Map.Get and the call panics
PickerPick(key) ==
    /\ ~picker.panic
    /\ picker' = IF picker.impl = "server" THEN ServerPickPeer(key)
                  ELSE PoolPickPeer(key)
    /\ UNCHANGED <<ring, ringOp, ringFrame>>

----------------------------------------------------------------------------
(* singleflight.Group on its own: Do called from several goroutines, the  *)
(* call objects kept by address.                                           *)

SfProcs == {"d1", "d2", "d3"}

SfKeys == {"a", "b"}

\* number of Do calls of one goroutine
MaxSfCalls == 1

\* what the fn of a caller returns: a value, or an error
FnOutcomes == {[val |-> 1, err |-> "nil"], [val |-> 0, err |-> "failed"]}

\* the nil *call
NilCall == 0

\* new(call); c.wg.Add(1); by and runs record who allocated the call and
\* how many fn executions wrote to it
SfNewCall(d) ==
    [done |-> FALSE, val |-> 0, err |-> "nil", by |-> d, runs |-> 0]

NoDo == [pc |-> "idle", key |-> "a", c |-> NilCall, joined |-> FALSE,
         ran |-> FALSE, val |-> 0, err |-> "nil", returned |-> FALSE,
         left |-> 0, old |-> NilCall]

FlightIdle ==
    /\ flight = <<>>
    /\ calls = <<>>
    /\ doer = [d \in SfProcs |-> NoDo]

\* what no Do touches
flightFrame == <<coreVars, regVars, ringVars>>

\* a lookup that never finds a call
SfFoundNever(key) == FALSE

\* c, ok := g.m[key]
SfFound(key) == key \in DOMAIN flight

\* a wait that never blocks
SfWaitOverAlways(c) == TRUE

\* c.wg.Wait() returns
SfWaitOver(c) == calls[c].done

\* a call object that no goroutine and no map refers to any more
Freed == [done |-> TRUE, val |-> 0, err |-> "nil", by |-> NoProc, runs |-> 1]

\* the call of the key whose fn has already returned, if the map holds one
SfFinished(key) ==
    IF key \in DOMAIN flight /\ calls[flight[key]].runs > 0
    THEN flight[key] ELSE NilCall

\* a goroutine calls Do(key, fn); the call object its previous Do returned
\* from is garbage once no other goroutine holds it; old remembers the call
\* that had finished its fn when this Do began, for as long as this Do can
\* still join it
SfCall(d, key) ==
    /\ doer[d].pc = "idle"
    /\ doer[d].left > 0
    /\ doer' = [doer EXCEPT ![d] = [NoDo EXCEPT !.pc = "lookup", !.key = key,
                                               !.left = doer[d].left - 1,
                                               !.old = SfFinished(key)]]
    /\ calls' = [c \in DOMAIN calls |->
                    IF \/ \E e \in SfProcs : doer'[e].c = c
                       \/ \E k \in DOMAIN flight : flight[k] = c
                    THEN calls[c] ELSE Freed]
    /\ UNCHANGED <<flight, flightFrame>>

\* Do's first critical section: join the call of the key, or allocate one
\* and put it into the map
SfLookup(d) ==
    /\ doer[d].pc = "lookup"
    /\ IF SfFound(doer[d].key)
       THEN /\ doer' = [doer EXCEPT ![d].pc = "wait",
                                    ![d].c = flight[doer[d].key],
                                    ![d].joined = TRUE,
                                    ![d].old = IF @ = flight[doer[d].key]
                                               THEN @ ELSE NilCall]
            /\ UNCHANGED <<flight, calls>>
       ELSE /\ calls' = Append(calls, SfNewCall(d))
            /\ flight' = [k \in (DOMAIN flight) \cup {doer[d].key} |->
                             IF k = doer[d].key THEN Len(calls) + 1
                             ELSE flight[k]]
            /\ doer' = [doer EXCEPT ![d].pc = "fn", ![d].c = Len(calls) + 1,
                                    ![d].old = NilCall]
    /\ UNCHANGED flightFrame

\* c.wg.Wait(); return c.val, c.err
SfWait(d) ==
    /\ doer[d].pc = "wait"
    /\ SfWaitOver(doer[d].c)
    /\ doer' = [doer EXCEPT ![d].pc = "idle", ![d].returned = TRUE,
                            ![d].val = calls[doer[d].c].val,
                            ![d].err = calls[doer[d].c].err]
    /\ UNCHANGED <<flight, calls, flightFrame>>

\* c.val, c.err = fn()
SfFn(d, o) ==
    /\ doer[d].pc = "fn"
    /\ calls' = [calls EXCEPT ![doer[d].c].val = o.val,
                              ![doer[d].c].err = o.err,
                              ![doer[d].c].runs = @ + 1]
    /\ doer' = [doer EXCEPT ![d].pc = "done", ![d].ran = TRUE]
    /\ UNCHANGED <<flight, flightFrame>>

\* c.wg.Done()
SfDone(d) ==
    /\ doer[d].pc = "done"
    /\ calls' = [calls EXCEPT ![doer[d].c].done = TRUE]
    /\ doer' = [doer EXCEPT ![d].pc = "delete"]
    /\ UNCHANGED <<flight, flightFrame>>

\* a delete that leaves the map as it is
SfRemovedNothing(m, key) == m

\* delete(g.m, key)
SfRemoved(m, key) == [k \in (DOMAIN m) \ {key} |-> m[k]]

\* Do's second critical section, delete(g.m, key), and return c.val, c.err
SfDelete(d) ==
    /\ doer[d].pc = "delete"
    /\ flight' = SfRemoved(flight, doer[d].key)
    /\ doer' = [doer EXCEPT ![d].pc = "idle", ![d].returned = TRUE,
                            ![d].val = calls[doer[d].c].val,
                            ![d].err = calls[doer[d].c].err]
    /\ UNCHANGED <<calls, flightFrame>>

LibIdle == RegistryIdle /\ RingIdle /\ FlightIdle

----------------------------------------------------------------------------
(* SpecLRU: a stand-alone lru.Cache with an OnEvicted callback that        *)
(* records its calls, as the package's tests build it.                     *)

NoOp == [op |-> "none", key |-> KeyA, value |-> NoValue, expire |-> NoExpire,
         present |-> FALSE, old |-> NoValue, ok |-> FALSE, ev |-> <<>>]

InitLRU ==
    /\ now = 0
    /\ LibIdle
    /\ \E n \in 0..MaxMaxEntries : lru = New(n)
    /\ lastOp = NoOp
    /\ onlyAdds = TRUE
    /\ addSeq = <<>>
    /\ evSeq = <<>>
    /\ NewGroupState(0, {}, NoBudget)

EvictedKeys(seq) == [i \in 1..Len(seq) |-> seq[i].key]

SeqRange(s) == {s[i] : i \in 1..Len(s)}

LruAdd(key, value, expire) ==
    /\ Len(lru.ll) < MaxListLen
    /\ LET r == Add(lru, key, value, expire)
           present == key \in DOMAIN lru.cache
           fresh == onlyAdds /\ key \notin SeqRange(addSeq)
       IN /\ lru' = r.c
          /\ lastOp' = [op |-> "Add", key |-> key, value |-> value,
                        expire |-> expire, present |-> present,
                        old |-> IF present THEN lru.ll[lru.cache[key]].value
                                ELSE NoValue,
                        ok |-> FALSE, ev |-> r.ev]
          /\ onlyAdds' = fresh
          /\ addSeq' = IF fresh THEN Append(addSeq, key) ELSE <<>>
          /\ evSeq' = IF fresh THEN evSeq \o EvictedKeys(r.ev) ELSE <<>>
    /\ UNCHANGED <<now, groupVars>>

\* the entry the index map holds for key
Indexed(c, key) == c.ll[c.cache[key]]

LruOther(name, key, r) ==
    /\ lru' = r.c
    /\ lastOp' = [op |-> name, key |-> key, value |-> r.value,
                  expire |-> IF name = "Get" /\ key \in DOMAIN lru.cache
                             THEN Indexed(lru, key).expire ELSE NoExpire,
                  present |-> key \in DOMAIN lru.cache,
                  old |-> IF name = "Get" /\ key \in DOMAIN lru.cache
                          THEN Indexed(lru, key).value ELSE NoValue,
                  ok |-> r.ok, ev |-> r.ev]
    /\ onlyAdds' = FALSE
    /\ addSeq' = <<>>
    /\ evSeq' = <<>>
    /\ UNCHANGED <<now, groupVars>>

LruGet(key) == LruOther("Get", key, Get(lru, key, now))

LruRemove(key) == LruOther("Remove", key, Remove(lru, key))

LruRemoveOldest == LruOther("RemoveOldest", KeyA, RemoveOldest(lru))

\* the clock advances; lastOp describes an operation made at the time now
LruTick ==
    /\ now < MaxTime
    /\ now' = now + 1
    /\ lastOp' = NoOp
    /\ UNCHANGED <<lru, onlyAdds, addSeq, evSeq, groupVars>>

NextLRU ==
    \/ \E k \in LruKeys, v \in LruValues, e \in Expiries : LruAdd(k, v, e)
    \/ \E k \in LruKeys : LruGet(k)
    \/ \E k \in LruKeys : LruRemove(k)
    \/ LruRemoveOldest
    \/ LruTick

vars == <<now, lru, lastOp, onlyAdds, addSeq, evSeq, cacheBytes, peers,
          mainCache, hotCache, loadGroup, setGroup, removeGroup, Stats, pc, op,
          fr, sink, result, budget, crashed, loaderCalls, onlyGetsOf, last,
          libVars>>

SpecLRU == InitLRU /\ [][NextLRU]_vars

----------------------------------------------------------------------------
(* SpecCache: one cache wrapper driven directly through add, get, remove   *)
(* and removeOldest, with the clock advancing in between.                  *)

CacheKeys == {KeyA, KeyB}

CacheViews == {view(b, e) : b \in {<<3>>, <<4, 4>>}, e \in Expiries}

InitCache ==
    /\ now = 1
    /\ LibIdle
    /\ LruIdle
    /\ NewGroupState(0, {}, NoBudget)

cacheFrame == <<now, lruVars, cacheBytes, peers, hotCache, loadGroup, setGroup,
                removeGroup, Stats, pc, op, fr, sink, result, budget, crashed,
                loaderCalls, onlyGetsOf, last>>

CacheAdd(key, value) ==
    /\ Len(mainCache.lru.ll) < MaxListLen
    /\ mainCache.nbytes > -MaxDeficit
    /\ mainCache' = add(mainCache, key, value)
    /\ UNCHANGED cacheFrame

CacheGet(key) ==
    /\ mainCache' = get(mainCache, key, now).c
    /\ UNCHANGED cacheFrame

CacheRemove(key) ==
    /\ mainCache' = remove(mainCache, key)
    /\ UNCHANGED cacheFrame

CacheRemoveOldest ==
    /\ mainCache' = removeOldest(mainCache)
    /\ UNCHANGED cacheFrame

CacheTick ==
    /\ now < MaxTime
    /\ now' = now + 1
    /\ UNCHANGED <<lruVars, groupVars>>

NextCache ==
    \/ \E k \in CacheKeys, v \in CacheViews : CacheAdd(k, v)
    \/ \E k \in CacheKeys : CacheGet(k)
    \/ \E k \in CacheKeys : CacheRemove(k)
    \/ CacheRemoveOldest
    \/ CacheTick

SpecCache == InitCache /\ [][NextCache]_vars

----------------------------------------------------------------------------
(* Spec: one Group and its callers.  Each action is one atomic step of a   *)
(* goroutine: a critical section of a mutex, an atomic counter update, or  *)
(* a call to the loader or to a peer.                                      *)

\* PeerPicker.PickPeer with a fixed assignment per peer set: with C as the
\* only peer KeyB and KeyC belong to C; with any other peers KeyC belongs to
\* B; every other key (and every key of NoPeers) is local
PickPeer(key) ==
    IF peers = {PeerC} /\ key \in {KeyB, KeyC}
    THEN [peer |-> PeerC, ok |-> TRUE]
    ELSE IF peers # {} /\ peers # {PeerC} /\ key = KeyC
    THEN [peer |-> PeerB, ok |-> TRUE]
    ELSE [peer |-> NoPeer, ok |-> FALSE]

\* PeerPicker.GetAll
GetAll == peers

\* int64 division of Go: truncates toward zero
Quot(a, b) == IF a >= 0 THEN a \div b ELSE -((-a) \div b)

Others(p) == Procs \ {p}

Idle(p) == pc[p] = "idle"

(* singleflight.Group: Do's critical sections on the map of calls *)

NewCall == [done |-> FALSE, val |-> NilIface, err |-> "nil"]

\* a Do that never joins a call in flight
DoLookupNoJoin(g, key) == "run"

\* what Do finds under g.mu: a call to join, or none
DoLookup(g, key) ==
    IF key \in DOMAIN g.m
    THEN IF g.m[key].done THEN "done" ELSE "wait"
    ELSE "run"

\* g.m[key] = c
DoCreate(g, key) ==
    [g EXCEPT !.m = [k \in (DOMAIN g.m) \cup {key} |->
                        IF k = key THEN NewCall ELSE g.m[k]]]

\* c.val, c.err = fn(); c.wg.Done()
DoDone(g, key, val, err) ==
    [g EXCEPT !.m[key] = [done |-> TRUE, val |-> val, err |-> err]]

\* delete(g.m, key)
DoDelete(g, key) ==
    [g EXCEPT !.m = [k \in (DOMAIN g.m) \ {key} |-> g.m[k]]]

(* bookkeeping of which call followed which *)

TaggedGet(call, t) ==
    call.kind = "Get" /\ ~call.nilDest /\ t.kind = "set" /\ t.key = call.key

\* another goroutine starts a call: this one no longer runs alone, and
\* what the caches held when it began is no longer compared
Disturb(f, call) ==
    [f EXCEPT !.solo = FALSE,
              !.tag = IF TaggedGet(call, @) THEN @ ELSE NoTag,
              !.pre = NoFrame.pre]

\* q is inside a call of the same kind on the same key
Twin(q, call) ==
    ~Idle(q) /\ op[q].kind = call.kind /\ op[q].key = call.key

\* the loader has handed q its value for the key and the Get of q has not
\* returned yet
LoadedInFlight(q, key) ==
    /\ ~Idle(q) /\ op[q].kind = "Get" /\ op[q].key = key
    /\ fr[q].loaded /\ fr[q].err = "nil"

NewFrame(p, call) ==
    [NoFrame EXCEPT
        !.solo = \A q \in Others(p) : Idle(q),
        !.stale = /\ call.kind = "Remove"
                  /\ \E q \in Others(p) : LoadedInFlight(q, call.key),
        !.twin = \E q \in Others(p) : Twin(q, call),
        !.tag = IF /\ call.kind = "Get" /\ ~call.nilDest
                   /\ last.kind \in {"set", "remove"} /\ last.key = call.key
                THEN last
                ELSE IF /\ call.kind = "Remove"
                        /\ last.kind = "set" /\ last.key = call.key
                THEN last
                ELSE NoTag]

\* the part of starting a call that every call shares
Start(p, call) ==
    /\ ~crashed
    /\ Idle(p)
    /\ budget[p] > 0
    /\ budget' = [budget EXCEPT ![p] = @ - 1]
    /\ op' = [op EXCEPT ![p] = call]
    /\ onlyGetsOf' =
          IF call.kind = "Get" /\ ~call.nilDest /\ onlyGetsOf.st = "none"
          THEN [st |-> "one", key |-> call.key]
          ELSE IF /\ call.kind = "Get" /\ ~call.nilDest
                  /\ onlyGetsOf.st = "one" /\ onlyGetsOf.key = call.key
          THEN onlyGetsOf
          ELSE [st |-> "mixed", key |-> EmptyKey]

StartLast(call) ==
    IF TaggedGet(call, last) THEN [last EXCEPT !.seen = TRUE] ELSE NoTag

\* frames after p started call and then ran on to frame f
Frames(p, call, f) ==
    [q \in Procs |->
        IF q = p THEN f
        ELSE [Disturb(fr[q], call) EXCEPT !.twin = @ \/ Twin(q, call)]]

\* the call that returns leaves its mark when it ran alone
ReturnLast(p, res) ==
    IF /\ op[p].kind = "Set" /\ res = "nil" /\ fr[p].solo
       /\ ~PickPeer(op[p].key).ok /\ cacheBytes > 0
    THEN [kind |-> "set", key |-> op[p].key, value |-> op[p].value,
          expire |-> op[p].expire, seen |-> FALSE]
    ELSE IF /\ op[p].kind = "Remove" /\ res = "nil" /\ fr[p].solo
            /\ ~PickPeer(op[p].key).ok /\ fr[p].tag.kind = "set"
    THEN [kind |-> "remove", key |-> op[p].key, value |-> <<>>,
          expire |-> NoExpire, seen |-> FALSE]
    ELSE last

Step(p, label) == ~crashed /\ pc[p] = label

Goto(p, label) == pc' = [pc EXCEPT ![p] = label]

\* an Add(1) that always lands on LoadsDeduped
BumpDeduped(st, field) == [st EXCEPT !.LoadsDeduped = @ + 1]

\* AtomicInt.Add(1) on one counter of Stats
Bump(st, field) == [st EXCEPT ![field] = @ + 1]

\* setSinkView(dest, v)
setSinkView(v) == [set |-> TRUE, v |-> v]

(* Group.Get *)

GetCall(key, nilDest) ==
    [kind |-> "Get", key |-> key, value |-> <<>>, expire |-> NoExpire,
     hot |-> FALSE, nilDest |-> nilDest]

\* Get up to the mainCache half of lookupCache
GroupGet(p, key, nilDest) ==
    LET call == GetCall(key, nilDest)
        f0 == [NewFrame(p, call) EXCEPT
                  !.loads0 = loaderCalls[key],
                  !.at = now, !.hitAt = now,
                  !.pre = IF PickPeer(key).ok
                          THEN [main |-> mainCache, hot |-> hotCache,
                                PeerLoads |-> Stats.PeerLoads,
                                PeerErrors |-> Stats.PeerErrors]
                          ELSE @]
        r == get(mainCache, key, now)
        gets == Bump(Stats, "Gets")
    IN /\ Start(p, call)
       /\ last' = StartLast(call)
       /\ IF nilDest
          THEN /\ Stats' = gets
               /\ Goto(p, "idle")
               /\ result' = [result EXCEPT ![p] = "ErrNilSink"]
               /\ sink' = [sink EXCEPT ![p] = NoSink]
               /\ fr' = Frames(p, call, f0)
               /\ UNCHANGED mainCache
          ELSE IF CachingOff
          THEN /\ Stats' = Bump(gets, "Loads")
               /\ Goto(p, "load")
               /\ result' = [result EXCEPT ![p] = "none"]
               /\ sink' = [sink EXCEPT ![p] = NoSink]
               /\ fr' = Frames(p, call, [f0 EXCEPT !.missed = TRUE])
               /\ UNCHANGED mainCache
          ELSE /\ mainCache' = r.c
               /\ IF r.ok
                  THEN /\ Stats' = Bump(gets, "CacheHits")
                       /\ Goto(p, "idle")
                       /\ result' = [result EXCEPT ![p] = "nil"]
                       /\ sink' = [sink EXCEPT ![p] = setSinkView(r.value)]
                       /\ fr' = Frames(p, call, [f0 EXCEPT !.hit = TRUE])
                  ELSE /\ Stats' = gets
                       /\ Goto(p, "lookupHot")
                       /\ result' = [result EXCEPT ![p] = "none"]
                       /\ sink' = [sink EXCEPT ![p] = NoSink]
                       /\ fr' = Frames(p, call, f0)
       /\ UNCHANGED <<now, lruVars, cacheBytes, peers, hotCache, loadGroup,
                      setGroup, removeGroup, crashed, loaderCalls>>

\* the hotCache half of lookupCache, then the hit return or Loads.Add(1)
LookupHot(p) ==
    LET r == get(hotCache, op[p].key, now)
    IN /\ Step(p, "lookupHot")
       /\ hotCache' = r.c
       /\ IF r.ok
          THEN /\ Stats' = Bump(Stats, "CacheHits")
               /\ Goto(p, "idle")
               /\ result' = [result EXCEPT ![p] = "nil"]
               /\ sink' = [sink EXCEPT ![p] = setSinkView(r.value)]
               /\ fr' = [fr EXCEPT ![p].hit = TRUE, ![p].hitAt = now]
          ELSE /\ Stats' = Bump(Stats, "Loads")
               /\ Goto(p, "load")
               /\ fr' = [fr EXCEPT ![p].missed = TRUE]
               /\ UNCHANGED <<result, sink>>
       /\ UNCHANGED <<now, lruVars, cacheBytes, peers, mainCache, loadGroup,
                      setGroup, removeGroup, op, budget, crashed, loaderCalls,
                      onlyGetsOf, last>>

\* loadGroup.Do: the first critical section
LoadDo(p) ==
    LET how == DoLookup(loadGroup, op[p].key)
    IN /\ Step(p, "load")
       /\ loadGroup.mu = NoProc
       /\ IF how = "run"
          THEN /\ loadGroup' = DoCreate(loadGroup, op[p].key)
               /\ Goto(p, "recheckMain")
               /\ UNCHANGED fr
          ELSE IF how = "wait"
          THEN /\ Goto(p, "loadWait")
               /\ UNCHANGED <<loadGroup, fr>>
          ELSE /\ Goto(p, "getRet")
               /\ fr' = [fr EXCEPT ![p].viewi = loadGroup.m[op[p].key].val,
                                   ![p].err = loadGroup.m[op[p].key].err]
               /\ UNCHANGED loadGroup
       /\ UNCHANGED <<now, lruVars, cacheBytes, peers, mainCache, hotCache,
                      setGroup, removeGroup, Stats, op, sink, result, budget,
                      crashed, loaderCalls, onlyGetsOf, last>>

\* the load body after both lookups missed: LoadsDeduped.Add(1), PickPeer
AfterMiss(p) ==
    LET o == PickPeer(op[p].key)
    IN /\ Stats' = Bump(Stats, "LoadsDeduped")
       /\ Goto(p, IF o.ok THEN "peerGet" ELSE "getLocally")
       /\ fr' = [fr EXCEPT ![p].owner = o.peer]

\* the load body found the key in a cache: return value, nil
RecheckHit(p, v) ==
    /\ Stats' = Bump(Stats, "CacheHits")
    /\ Goto(p, "loadDone")
    /\ fr' = [fr EXCEPT ![p].viewi = Iface(v), ![p].err = "nil"]

\* load body: lookupCache again, mainCache half
RecheckMain(p) ==
    LET r == get(mainCache, op[p].key, now)
    IN /\ Step(p, "recheckMain")
       /\ IF CachingOff
          THEN AfterMiss(p) /\ UNCHANGED mainCache
          ELSE /\ mainCache' = r.c
               /\ IF r.ok THEN RecheckHit(p, r.value)
                  ELSE Goto(p, "recheckHot") /\ UNCHANGED <<Stats, fr>>
       /\ UNCHANGED <<now, lruVars, cacheBytes, peers, hotCache, loadGroup,
                      setGroup, removeGroup, op, sink, result, budget, crashed,
                      loaderCalls, onlyGetsOf, last>>

\* load body: lookupCache again, hotCache half
RecheckHot(p) ==
    LET r == get(hotCache, op[p].key, now)
    IN /\ Step(p, "recheckHot")
       /\ hotCache' = r.c
       /\ IF r.ok THEN RecheckHit(p, r.value) ELSE AfterMiss(p)
       /\ UNCHANGED <<now, lruVars, cacheBytes, peers, mainCache, loadGroup,
                      setGroup, removeGroup, op, sink, result, budget, crashed,
                      loaderCalls, onlyGetsOf, last>>

PeerGetOutcomes == {"ok", "Canceled", "ErrNotFound", "ErrRemoteCall", "ErrPeer"}

PeerExpiries == {NoExpire, 1}

\* a response that is never taken for expired
ResponseExpiredNever(e, t) == FALSE

\* res.Expire != 0 and time.Now().After(expire)
ResponseExpired(e, t) == e # NoExpire /\ t > e

\* a peer's value put into the main cache
PeerCacheMain == "main"

\* g.populateCache(key, value, &g.hotCache)
PeerCache == "hot"

\* getFromPeer: peer.Get and the expiry test on the response
PeerGet(p, outcome, e) ==
    LET expired == ResponseExpired(e, now)
        err == IF outcome = "ok" THEN "ErrExpired" ELSE outcome
    IN /\ Step(p, "peerGet")
       /\ IF outcome = "ok" /\ ~expired
          THEN /\ fr' = [fr EXCEPT ![p].value = view(PeerValue(op[p].key), e),
                                   ![p].cache = PeerCache, ![p].ret = "latency",
                                   ![p].peerOk = TRUE]
               /\ Goto(p, "popAdd")
          ELSE /\ fr' = [fr EXCEPT ![p].err = err, ![p].peerErr = err]
               /\ Goto(p, "latency")
       /\ UNCHANGED <<now, lruVars, cacheBytes, peers, mainCache, hotCache,
                      loadGroup, setGroup, removeGroup, Stats, op, sink, result,
                      budget, crashed, loaderCalls, onlyGetsOf, last>>

\* the elapsed time of a peer Get, in milliseconds
Durations == {1}

\* longest elapsed time of a peer Get where two fetches are timed
MaxDuration == 2

TimedDurations == 1..MaxDuration

\* a load that falls back to the loader after every peer error
TerminalNone(err) == FALSE

\* errors.Is(err, context.Canceled), &ErrNotFound{} or &ErrRemoteCall{}
Terminal(err) == err \in {"Canceled", "ErrNotFound", "ErrRemoteCall"}

\* load body after getFromPeer returned and the latency was recorded
AfterPeer(p, st, ctxDead, d) ==
    IF fr[p].err = "nil"
    THEN /\ Stats' = Bump(st, "PeerLoads")
         /\ Goto(p, "loadDone")
         /\ fr' = [fr EXCEPT ![p].viewi = Iface(fr[p].value), ![p].dur = d]
    ELSE IF Terminal(fr[p].err)
    THEN /\ Stats' = st
         /\ Goto(p, "loadDone")
         /\ fr' = [fr EXCEPT ![p].viewi = NilIface, ![p].dur = d]
    ELSE /\ Stats' = Bump(st, "PeerErrors")
         /\ IF ctxDead
            THEN /\ Goto(p, "loadDone")
                 /\ fr' = [fr EXCEPT ![p].viewi = NilIface,
                                     ![p].ctxDead = TRUE, ![p].dur = d]
            ELSE Goto(p, "getLocally") /\ fr' = [fr EXCEPT ![p].dur = d]

\* if GetFromPeersLatencyLower.Get() < duration
Latency(p, d, ctxDead) ==
    /\ Step(p, "latency")
    /\ IF Stats.GetFromPeersLatencyLower < d
       THEN /\ fr' = [fr EXCEPT ![p].dur = d]
            /\ Goto(p, "latStore")
            /\ UNCHANGED Stats
       ELSE AfterPeer(p, Stats, ctxDead, d)
    /\ UNCHANGED <<now, lruVars, cacheBytes, peers, mainCache, hotCache,
                   loadGroup, setGroup, removeGroup, op, sink, result, budget,
                   crashed, loaderCalls, onlyGetsOf, last>>

\* GetFromPeersLatencyLower.Store(duration)
LatStore(p, ctxDead) ==
    /\ Step(p, "latStore")
    /\ AfterPeer(p, [Stats EXCEPT !.GetFromPeersLatencyLower = fr[p].dur],
                 ctxDead, fr[p].dur)
    /\ UNCHANGED <<now, lruVars, cacheBytes, peers, mainCache, hotCache,
                   loadGroup, setGroup, removeGroup, op, sink, result, budget,
                   crashed, loaderCalls, onlyGetsOf, last>>

LoaderOutcomes == {"ok", "ErrLoader"}

\* getLocally: the Getter fills the sink or fails; then the counters
GetLocally(p, outcome) ==
    LET v == view(LoaderValue(op[p].key), NoExpire)
    IN /\ Step(p, "getLocally")
       /\ loaderCalls' = [loaderCalls EXCEPT ![op[p].key] = @ + 1]
       /\ IF outcome = "ok"
          THEN /\ sink' = [sink EXCEPT ![p] = [set |-> TRUE, v |-> v]]
               /\ Stats' = Bump(Stats, "LocalLoads")
               /\ fr' = [fr EXCEPT ![p].value = v, ![p].viewi = Iface(v),
                                   ![p].err = "nil",
                                   ![p].destPopulated = TRUE,
                                   ![p].loaded = TRUE,
                                   ![p].cache = "main", ![p].ret = "loadDone"]
               /\ Goto(p, "popAdd")
          ELSE /\ Stats' = Bump(Stats, "LocalLoadErrs")
               /\ fr' = [fr EXCEPT ![p].viewi = NilIface, ![p].err = outcome,
                                   ![p].loaded = TRUE]
               /\ Goto(p, "loadDone")
               /\ UNCHANGED sink
       /\ UNCHANGED <<now, lruVars, cacheBytes, peers, mainCache, hotCache,
                      loadGroup, setGroup, removeGroup, op, result, budget,
                      crashed, onlyGetsOf, last>>

(* populateCache *)

\* populateCache: the cacheBytes test and cache.add
PopAdd(p) ==
    /\ Step(p, "popAdd")
    /\ IF CachingOff
       THEN Goto(p, fr[p].ret) /\ UNCHANGED <<mainCache, hotCache>>
       ELSE /\ Goto(p, "popMain")
            /\ IF fr[p].cache = "hot"
               THEN /\ hotCache' = add(hotCache, op[p].key, fr[p].value)
                    /\ UNCHANGED mainCache
               ELSE /\ mainCache' = add(mainCache, op[p].key, fr[p].value)
                    /\ UNCHANGED hotCache
    /\ UNCHANGED <<now, lruVars, cacheBytes, peers, loadGroup, setGroup,
                   removeGroup, Stats, op, fr, sink, result, budget, crashed,
                   loaderCalls, onlyGetsOf, last>>

\* mainBytes := g.mainCache.bytes()
PopMain(p) ==
    /\ Step(p, "popMain")
    /\ fr' = [fr EXCEPT ![p].mainBytes = bytes(mainCache)]
    /\ Goto(p, "popHot")
    /\ UNCHANGED <<now, lruVars, cacheBytes, peers, mainCache, hotCache,
                   loadGroup, setGroup, removeGroup, Stats, op, sink, result,
                   budget, crashed, loaderCalls, onlyGetsOf, last>>

\* an eviction loop that never evicts
FitsAlways(mainBytes, hotBytes) == TRUE

\* the exit test of the eviction loop
Fits(mainBytes, hotBytes) == mainBytes + hotBytes <= cacheBytes

\* an eviction loop that always picks mainCache
VictimMain(mainBytes, hotBytes) == "main"

\* the choice of the cache to evict from
Victim(mainBytes, hotBytes) ==
    IF hotBytes > Quot(mainBytes, 8) THEN "hot" ELSE "main"

\* hotBytes := g.hotCache.bytes(); return, or pick the victim
PopHot(p) ==
    LET hotBytes == bytes(hotCache)
    IN /\ Step(p, "popHot")
       /\ IF Fits(fr[p].mainBytes, hotBytes)
          THEN /\ Goto(p, fr[p].ret)
               /\ fr' = [fr EXCEPT ![p].mainBytes = 0]
          ELSE /\ Goto(p, "popEvict")
               /\ fr' = [fr EXCEPT ![p].mainBytes = 0,
                                   ![p].victim =
                                      Victim(fr[p].mainBytes, hotBytes)]
       /\ UNCHANGED <<now, lruVars, cacheBytes, peers, mainCache, hotCache,
                      loadGroup, setGroup, removeGroup, Stats, op, sink, result,
                      budget, crashed, loaderCalls, onlyGetsOf, last>>

\* victim.removeOldest()
PopEvict(p) ==
    /\ Step(p, "popEvict")
    /\ IF fr[p].victim = "hot"
       THEN hotCache' = removeOldest(hotCache) /\ UNCHANGED mainCache
       ELSE mainCache' = removeOldest(mainCache) /\ UNCHANGED hotCache
    /\ Goto(p, "popMain")
    /\ fr' = [fr EXCEPT ![p].victim = "main"]
    /\ UNCHANGED <<now, lruVars, cacheBytes, peers, loadGroup, setGroup,
                   removeGroup, Stats, op, sink, result, budget, crashed,
                   loaderCalls, onlyGetsOf, last>>

(* the end of loadGroup.Do and of Group.load / Group.Get *)

\* goroutines blocked in c.wg.Wait() on the call of this key
Waiters(label, key) == {q \in Procs : pc[q] = label /\ op[q].key = key}

\* c.val, c.err = fn(); c.wg.Done(): the waiters read the call and go on
LoadDone(p) ==
    LET ws == Waiters("loadWait", op[p].key)
    IN /\ Step(p, "loadDone")
       /\ loadGroup' = DoDone(loadGroup, op[p].key, fr[p].viewi, fr[p].err)
       /\ pc' = [q \in Procs |-> IF q = p THEN "loadDelete"
                                 ELSE IF q \in ws THEN "getRet" ELSE pc[q]]
       /\ fr' = [q \in Procs |-> IF q \in ws
                                 THEN [fr[q] EXCEPT !.viewi = fr[p].viewi,
                                                    !.err = fr[p].err]
                                 ELSE fr[q]]
       /\ UNCHANGED <<now, lruVars, cacheBytes, peers, mainCache, hotCache,
                      setGroup, removeGroup, Stats, op, sink, result, budget,
                      crashed, loaderCalls, onlyGetsOf, last>>

\* g.mu.Lock(); delete(g.m, key); g.mu.Unlock()
LoadDelete(p) ==
    /\ Step(p, "loadDelete")
    /\ loadGroup.mu = NoProc
    /\ loadGroup' = DoDelete(loadGroup, op[p].key)
    /\ Goto(p, "getRet")
    /\ UNCHANGED <<now, lruVars, cacheBytes, peers, mainCache, hotCache,
                   setGroup, removeGroup, Stats, op, fr, sink, result, budget,
                   crashed, loaderCalls, onlyGetsOf, last>>

\* the tail of load and of Get: "if err != nil { value = viewi.(ByteView) }"
\* asserts the type of a nil interface, which panics; with err == nil the
\* named result value keeps its zero ByteView
GetRet(p) ==
    /\ Step(p, "getRet")
    /\ IF fr[p].err # "nil"
       THEN IF fr[p].viewi.isNil
            THEN /\ crashed' = TRUE
                 /\ Goto(p, "panic")
                 /\ UNCHANGED <<result, sink>>
            ELSE /\ Goto(p, "idle")
                 /\ result' = [result EXCEPT ![p] = fr[p].err]
                 /\ UNCHANGED <<crashed, sink>>
       ELSE /\ Goto(p, "idle")
            /\ result' = [result EXCEPT ![p] = "nil"]
            /\ sink' = IF fr[p].destPopulated THEN sink
                       ELSE [sink EXCEPT ![p] = setSinkView(ZeroView)]
            /\ UNCHANGED crashed
    /\ UNCHANGED <<now, lruVars, cacheBytes, peers, mainCache, hotCache,
                   loadGroup, setGroup, removeGroup, Stats, op, fr, budget,
                   loaderCalls, onlyGetsOf, last>>

(* Group.Set *)

SetCall(key, value, expire, hot) ==
    [kind |-> "Set", key |-> key, value |-> value, expire |-> expire,
     hot |-> hot, nilDest |-> FALSE]

\* localSet up to the point where it asks for the loadGroup lock
LocalSetEntry(f, call, cacheName) ==
    IF CachingOff
    THEN [label |-> "setDone", f |-> f]
    ELSE [label |-> "setLock",
          f |-> [f EXCEPT !.value = view(call.value, call.expire),
                          !.cache = cacheName, !.ret = "setUnlock"]]

\* Set: the key test, setGroup.Do's first critical section, PickPeer
GroupSet(p, key, value, expire, hot) ==
    LET call == SetCall(key, value, expire, hot)
        f0 == [NewFrame(p, call) EXCEPT
                  !.pre = [main |-> mainCache, hot |-> hotCache,
                           PeerLoads |-> Stats.PeerLoads,
                           PeerErrors |-> Stats.PeerErrors]]
        how == DoLookup(setGroup, key)
        o == PickPeer(key)
        loc == LocalSetEntry(f0, call, "main")
    IN /\ Start(p, call)
       /\ last' = NoTag
       /\ sink' = [sink EXCEPT ![p] = NoSink]
       /\ IF key = EmptyKey
          THEN /\ Goto(p, "idle")
               /\ result' = [result EXCEPT ![p] = "ErrEmptyKey"]
               /\ fr' = Frames(p, call, f0)
               /\ UNCHANGED setGroup
          ELSE IF how = "run"
          THEN /\ setGroup' = DoCreate(setGroup, key)
               /\ result' = [result EXCEPT ![p] = "none"]
               /\ IF o.ok
                  THEN /\ Goto(p, "setPeer")
                       /\ fr' = Frames(p, call, [f0 EXCEPT !.owner = o.peer])
                  ELSE /\ Goto(p, loc.label)
                       /\ fr' = Frames(p, call, loc.f)
          ELSE IF how = "wait"
          THEN /\ Goto(p, "setWait")
               /\ result' = [result EXCEPT ![p] = "none"]
               /\ fr' = Frames(p, call, f0)
               /\ UNCHANGED setGroup
          ELSE /\ Goto(p, "idle")
               /\ result' = [result EXCEPT ![p] = setGroup.m[key].err]
               /\ fr' = Frames(p, call, [f0 EXCEPT !.err = setGroup.m[key].err])
               /\ UNCHANGED setGroup
       /\ UNCHANGED <<now, lruVars, cacheBytes, peers, mainCache, hotCache,
                      loadGroup, removeGroup, Stats, crashed, loaderCalls>>

PeerOutcomes == {"nil", "ErrPeer"}

\* a mirror copy put into the main cache
MirrorCacheMain == "main"

\* g.localSet(key, value, expire, &g.hotCache)
MirrorCache == "hot"

\* setFromPeer, then localSet into the hot cache when asked for
SetPeer(p, outcome) ==
    LET one == [fr[p].sent EXCEPT ![fr[p].owner] = @ + 1]
        loc == LocalSetEntry([fr[p] EXCEPT !.sent = one], op[p], MirrorCache)
    IN /\ Step(p, "setPeer")
       /\ IF outcome # "nil"
          THEN /\ Goto(p, "setDone")
               /\ fr' = [fr EXCEPT ![p].err = outcome, ![p].sent = one]
          ELSE IF op[p].hot
          THEN Goto(p, loc.label) /\ fr' = [fr EXCEPT ![p] = loc.f]
          ELSE Goto(p, "setDone") /\ fr' = [fr EXCEPT ![p].sent = one]
       /\ UNCHANGED <<now, lruVars, cacheBytes, peers, mainCache, hotCache,
                      loadGroup, setGroup, removeGroup, Stats, op, sink, result,
                      budget, crashed, loaderCalls, onlyGetsOf, last>>

\* singleflight Lock(fn): g.mu.Lock() before fn runs
Lock(g, p) == [g EXCEPT !.mu = p]

\* singleflight Lock(fn): g.mu.Unlock() after fn returned
Unlock(g) == [g EXCEPT !.mu = NoProc]

\* localSet: loadGroup.Lock is entered; populateCache follows
SetLock(p) ==
    /\ Step(p, "setLock")
    /\ loadGroup.mu = NoProc
    /\ loadGroup' = Lock(loadGroup, p)
    /\ Goto(p, "popAdd")
    /\ UNCHANGED <<now, lruVars, cacheBytes, peers, mainCache, hotCache,
                   setGroup, removeGroup, Stats, op, fr, sink, result, budget,
                   crashed, loaderCalls, onlyGetsOf, last>>

\* localSet: populateCache returned, loadGroup.Lock is left
SetUnlock(p) ==
    /\ Step(p, "setUnlock")
    /\ loadGroup' = Unlock(loadGroup)
    /\ Goto(p, "setDone")
    /\ UNCHANGED <<now, lruVars, cacheBytes, peers, mainCache, hotCache,
                   setGroup, removeGroup, Stats, op, fr, sink, result, budget,
                   crashed, loaderCalls, onlyGetsOf, last>>

\* the end of the body of a Set or Remove: c.err is published and the
\* callers waiting on the call return it
BodyDone(p, label, g, next) ==
    LET ws == Waiters(label, op[p].key)
    IN /\ pc' = [q \in Procs |-> IF q = p THEN next
                                 ELSE IF q \in ws THEN "idle" ELSE pc[q]]
       /\ result' = [q \in Procs |-> IF q \in ws THEN fr[p].err
                                     ELSE result[q]]
       /\ fr' = [q \in Procs |-> IF q \in ws
                                 THEN [fr[q] EXCEPT !.err = fr[p].err]
                                 ELSE fr[q]]

\* setGroup.Do: c.val, c.err = fn(); c.wg.Done()
SetDone(p) ==
    /\ Step(p, "setDone")
    /\ setGroup' = DoDone(setGroup, op[p].key, NilIface, fr[p].err)
    /\ BodyDone(p, "setWait", setGroup, "setDelete")
    /\ UNCHANGED <<now, lruVars, cacheBytes, peers, mainCache, hotCache,
                   loadGroup, removeGroup, Stats, op, sink, budget, crashed,
                   loaderCalls, onlyGetsOf, last>>

\* setGroup.Do: delete(g.m, key), and Set returns the error
SetDelete(p) ==
    /\ Step(p, "setDelete")
    /\ setGroup' = DoDelete(setGroup, op[p].key)
    /\ Goto(p, "idle")
    /\ result' = [result EXCEPT ![p] = fr[p].err]
    /\ last' = ReturnLast(p, fr[p].err)
    /\ UNCHANGED <<now, lruVars, cacheBytes, peers, mainCache, hotCache,
                   loadGroup, removeGroup, Stats, op, fr, sink, budget, crashed,
                   loaderCalls, onlyGetsOf>>

(* Group.Remove *)

RemoveCall(key) ==
    [kind |-> "Remove", key |-> key, value |-> <<>>, expire |-> NoExpire,
     hot |-> FALSE, nilDest |-> FALSE]

\* a broadcast that does not skip the owner
BroadcastAll(owner) == GetAll

\* the peers the removal is sent to after the owner
Broadcast(owner) == {peer \in GetAll : peer # owner}

\* localRemove up to the lock, or past it when there is no cache
LocalRemoveEntry(f) ==
    IF ~CachingOff THEN [label |-> "rmLock", f |-> f]
    ELSE IF Broadcast(f.owner) = {} THEN [label |-> "rmDone", f |-> f]
    ELSE [label |-> "bcast", f |-> [f EXCEPT !.pend = Broadcast(f.owner)]]

\* Remove is called: the goroutine is about to enter removeGroup.Do
GroupRemove(p, key) ==
    LET call == RemoveCall(key)
    IN /\ Start(p, call)
       /\ last' = NoTag
       /\ sink' = [sink EXCEPT ![p] = NoSink]
       /\ result' = [result EXCEPT ![p] = "none"]
       /\ Goto(p, "rmDo")
       /\ fr' = Frames(p, call, NewFrame(p, call))
       /\ UNCHANGED <<now, lruVars, cacheBytes, peers, mainCache, hotCache,
                      loadGroup, setGroup, removeGroup, Stats, crashed,
                      loaderCalls>>

\* removeGroup.Do's first critical section; the body starts with PickPeer
RmDo(p) ==
    LET key == op[p].key
        how == DoLookup(removeGroup, key)
        o == PickPeer(key)
        f0 == [fr[p] EXCEPT !.ran = TRUE]
        loc == LocalRemoveEntry(f0)
    IN /\ Step(p, "rmDo")
       /\ IF how = "run"
          THEN /\ removeGroup' = DoCreate(removeGroup, key)
               /\ UNCHANGED result
               /\ IF o.ok
                  THEN /\ Goto(p, "rmOwner")
                       /\ fr' = [fr EXCEPT ![p] = [f0 EXCEPT !.owner = o.peer]]
                  ELSE /\ Goto(p, loc.label)
                       /\ fr' = [fr EXCEPT ![p] = loc.f]
          ELSE IF how = "wait"
          THEN /\ Goto(p, "rmWait")
               /\ UNCHANGED <<removeGroup, result, fr>>
          ELSE /\ Goto(p, "idle")
               /\ result' = [result EXCEPT ![p] = removeGroup.m[key].err]
               /\ fr' = [fr EXCEPT ![p].err = removeGroup.m[key].err]
               /\ UNCHANGED removeGroup
       /\ UNCHANGED <<now, lruVars, cacheBytes, peers, mainCache, hotCache,
                      loadGroup, setGroup, Stats, op, sink, budget, crashed,
                      loaderCalls, onlyGetsOf, last>>

\* removeFromPeer(owner); an error ends the body
RmOwner(p, outcome) ==
    LET loc == LocalRemoveEntry(fr[p])
        one == [fr[p].sent EXCEPT ![fr[p].owner] = @ + 1]
    IN /\ Step(p, "rmOwner")
       /\ IF outcome # "nil"
          THEN /\ Goto(p, "rmDone")
               /\ fr' = [fr EXCEPT ![p].err = outcome, ![p].ownerErr = TRUE,
                                   ![p].sent = one]
          ELSE /\ Goto(p, loc.label)
               /\ fr' = [fr EXCEPT ![p] = [loc.f EXCEPT !.sent = one]]
       /\ UNCHANGED <<now, lruVars, cacheBytes, peers, mainCache, hotCache,
                      loadGroup, setGroup, removeGroup, Stats, op, sink, result,
                      budget, crashed, loaderCalls, onlyGetsOf, last>>

\* localRemove: loadGroup.Lock is entered
RmLock(p) ==
    /\ Step(p, "rmLock")
    /\ loadGroup.mu = NoProc
    /\ loadGroup' = Lock(loadGroup, p)
    /\ Goto(p, "rmHot")
    /\ UNCHANGED <<now, lruVars, cacheBytes, peers, mainCache, hotCache,
                   setGroup, removeGroup, Stats, op, fr, sink, result, budget,
                   crashed, loaderCalls, onlyGetsOf, last>>

\* localRemove: g.hotCache.remove(key)
RmHot(p) ==
    /\ Step(p, "rmHot")
    /\ hotCache' = remove(hotCache, op[p].key)
    /\ Goto(p, "rmMain")
    /\ UNCHANGED <<now, lruVars, cacheBytes, peers, mainCache, loadGroup,
                   setGroup, removeGroup, Stats, op, fr, sink, result, budget,
                   crashed, loaderCalls, onlyGetsOf, last>>

\* localRemove: g.mainCache.remove(key); the lock is left and the
\* broadcast is set up
RmMain(p) ==
    LET pend == Broadcast(fr[p].owner)
    IN /\ Step(p, "rmMain")
       /\ mainCache' = remove(mainCache, op[p].key)
       /\ loadGroup' = Unlock(loadGroup)
       /\ fr' = [fr EXCEPT ![p].pend = pend]
       /\ Goto(p, IF pend = {} THEN "rmDone" ELSE "bcast")
       /\ UNCHANGED <<now, lruVars, cacheBytes, peers, hotCache, setGroup,
                      removeGroup, Stats, op, sink, result, budget, crashed,
                      loaderCalls, onlyGetsOf, last>>

\* for e := range errs { err = e }: one peer's answer arrives
BcastRecv(p, peer, outcome) ==
    /\ Step(p, "bcast")
    /\ peer \in fr[p].pend
    /\ fr' = [fr EXCEPT ![p].err = outcome, ![p].pend = @ \ {peer},
                        ![p].bcErr = @ \/ outcome # "nil",
                        ![p].sent[peer] = @ + 1]
    /\ Goto(p, IF fr[p].pend = {peer} THEN "rmDone" ELSE "bcast")
    /\ UNCHANGED <<now, lruVars, cacheBytes, peers, mainCache, hotCache,
                   loadGroup, setGroup, removeGroup, Stats, op, sink, result,
                   budget, crashed, loaderCalls, onlyGetsOf, last>>

\* removeGroup.Do: c.val, c.err = fn(); c.wg.Done()
RmDone(p) ==
    /\ Step(p, "rmDone")
    /\ removeGroup' = DoDone(removeGroup, op[p].key, NilIface, fr[p].err)
    /\ BodyDone(p, "rmWait", removeGroup, "rmDelete")
    /\ UNCHANGED <<now, lruVars, cacheBytes, peers, mainCache, hotCache,
                   loadGroup, setGroup, Stats, op, sink, budget, crashed,
                   loaderCalls, onlyGetsOf, last>>

\* removeGroup.Do: delete(g.m, key), and Remove returns the error
RmDelete(p) ==
    /\ Step(p, "rmDelete")
    /\ removeGroup' = DoDelete(removeGroup, op[p].key)
    /\ Goto(p, "idle")
    /\ result' = [result EXCEPT ![p] = fr[p].err]
    /\ last' = ReturnLast(p, fr[p].err)
    /\ UNCHANGED <<now, lruVars, cacheBytes, peers, mainCache, hotCache,
                   loadGroup, setGroup, Stats, op, fr, sink, budget, crashed,
                   loaderCalls, onlyGetsOf>>

(* the groups and callers that are explored *)

MaxCalls == 5

MaxPairCalls == 1

SetExpiries == {NoExpire}

Caller == "g1"

\* Local: the actions of a call on a group without peers
Local ==
    \/ \E p \in Procs, k \in GroupKeys, n \in BOOLEAN : GroupGet(p, k, n)
    \/ \E p \in Procs : LookupHot(p)
    \/ \E p \in Procs : LoadDo(p)
    \/ \E p \in Procs : RecheckMain(p)
    \/ \E p \in Procs : RecheckHot(p)
    \/ \E p \in Procs, o \in LoaderOutcomes : GetLocally(p, o)
    \/ \E p \in Procs : PopAdd(p)
    \/ \E p \in Procs : PopMain(p)
    \/ \E p \in Procs : PopHot(p)
    \/ \E p \in Procs : PopEvict(p)
    \/ \E p \in Procs : LoadDone(p)
    \/ \E p \in Procs : LoadDelete(p)
    \/ \E p \in Procs : GetRet(p)
    \/ \E p \in Procs, k \in GroupKeys \cup {EmptyKey}, v \in SetValues,
          e \in SetExpiries, h \in BOOLEAN : GroupSet(p, k, v, e, h)
    \/ \E p \in Procs : SetLock(p)
    \/ \E p \in Procs : SetUnlock(p)
    \/ \E p \in Procs : SetDone(p)
    \/ \E p \in Procs : SetDelete(p)
    \/ \E p \in Procs, k \in GroupKeys : GroupRemove(p, k)
    \/ \E p \in Procs : RmDo(p)
    \/ \E p \in Procs : RmLock(p)
    \/ \E p \in Procs : RmHot(p)
    \/ \E p \in Procs : RmMain(p)
    \/ \E p \in Procs : RmDone(p)
    \/ \E p \in Procs : RmDelete(p)

\* Remote: the steps that talk to a peer
Remote ==
    \/ \E p \in Procs, o \in PeerGetOutcomes, e \in PeerExpiries :
          PeerGet(p, o, e)
    \/ \E p \in Procs, d \in Durations, c \in BOOLEAN : Latency(p, d, c)
    \/ \E p \in Procs, c \in BOOLEAN : LatStore(p, c)
    \/ \E p \in Procs, o \in PeerOutcomes : SetPeer(p, o)
    \/ \E p \in Procs, o \in PeerOutcomes : RmOwner(p, o)
    \/ \E p \in Procs, peer \in {PeerB, PeerC}, o \in PeerOutcomes :
          BcastRecv(p, peer, o)

(* SpecSeq: a group without peers (NoPeers) and one caller that makes its  *)
(* calls one after the other.                                              *)

InitSeq ==
    /\ now = 1
    /\ LibIdle
    /\ LruIdle
    /\ NewGroupState(CacheCap, {},
                     [p \in Procs |-> IF p = Caller THEN MaxCalls ELSE 0])

NextSeq == Local

SpecSeq == InitSeq /\ [][NextSeq]_vars

(* Spec: two callers side by side, on a group with or without peers; the   *)
(* second caller makes one call.                                           *)

PeerSets == { {}, {PeerB, PeerC} }

\* cacheBytes of the group: caching switched off, or a few bytes
CacheSizes == {0, CacheCap}

\* the clock reads 2 and stands still: a peer response with expiry 1 has
\* expired when it is received
Init ==
    /\ now = 2
    /\ LibIdle
    /\ LruIdle
    /\ \E ps \in PeerSets, cb \in CacheSizes :
          NewGroupState(cb, ps,
                           [p \in Procs |-> IF p = Caller THEN MaxPairCalls
                                            ELSE 1])

Next == Local \/ Remote

Spec == Init /\ [][Next]_vars

\* a step that moves the call of p on: taken by p itself, or by the caller
\* whose call p waits for
Progress(p) == Next /\ pc[p] # "idle" /\ <<pc[p], fr[p]>>' # <<pc[p], fr[p]>>

\* Spec with a scheduler that lets every goroutine run again and again, and
\* with loader and peer calls that return
SpecFair == Spec /\ \A p \in Procs : WF_vars(Progress(p))

(* SpecLat: two callers that make one Get each, on a group whose peer C    *)
(* owns two keys, with peer Gets that take different times.                *)

InitLat ==
    /\ now = 2
    /\ LibIdle
    /\ LruIdle
    /\ NewGroupState(CacheCap, {PeerC}, [p \in Procs |-> 1])

NextLat ==
    \/ \E p \in Procs, k \in GroupKeys, n \in BOOLEAN : GroupGet(p, k, n)
    \/ \E p \in Procs : LookupHot(p)
    \/ \E p \in Procs : LoadDo(p)
    \/ \E p \in Procs : RecheckMain(p)
    \/ \E p \in Procs : RecheckHot(p)
    \/ \E p \in Procs, o \in PeerGetOutcomes, e \in PeerExpiries :
          PeerGet(p, o, e)
    \/ \E p \in Procs, d \in TimedDurations, c \in BOOLEAN : Latency(p, d, c)
    \/ \E p \in Procs, c \in BOOLEAN : LatStore(p, c)
    \/ \E p \in Procs, o \in LoaderOutcomes : GetLocally(p, o)
    \/ \E p \in Procs : PopAdd(p)
    \/ \E p \in Procs : PopMain(p)
    \/ \E p \in Procs : PopHot(p)
    \/ \E p \in Procs : PopEvict(p)
    \/ \E p \in Procs : LoadDone(p)
    \/ \E p \in Procs : LoadDelete(p)
    \/ \E p \in Procs : GetRet(p)

SpecLat == InitLat /\ [][NextLat]_vars

(* SpecArgs: one caller on a group without peers whose Gets and Sets also  *)
(* pass the empty key and the nil sink.                                    *)

\* number of calls of that caller
MaxArgCalls == 3

InitArgs ==
    /\ now = 1
    /\ LibIdle
    /\ LruIdle
    /\ NewGroupState(CacheCap, {},
                     [p \in Procs |-> IF p = Caller THEN MaxArgCalls ELSE 0])

NextArgs ==
    \/ \E p \in Procs, k \in GroupKeys \cup {EmptyKey}, n \in BOOLEAN :
          GroupGet(p, k, n)
    \/ \E p \in Procs : LookupHot(p)
    \/ \E p \in Procs : LoadDo(p)
    \/ \E p \in Procs : RecheckMain(p)
    \/ \E p \in Procs : RecheckHot(p)
    \/ \E p \in Procs, o \in LoaderOutcomes : GetLocally(p, o)
    \/ \E p \in Procs : PopAdd(p)
    \/ \E p \in Procs : PopMain(p)
    \/ \E p \in Procs : PopHot(p)
    \/ \E p \in Procs : PopEvict(p)
    \/ \E p \in Procs : LoadDone(p)
    \/ \E p \in Procs : LoadDelete(p)
    \/ \E p \in Procs : GetRet(p)
    \/ \E p \in Procs, k \in GroupKeys \cup {EmptyKey}, v \in SetValues,
          e \in SetExpiries, h \in BOOLEAN : GroupSet(p, k, v, e, h)
    \/ \E p \in Procs : SetLock(p)
    \/ \E p \in Procs : SetUnlock(p)
    \/ \E p \in Procs : SetDone(p)
    \/ \E p \in Procs : SetDelete(p)

SpecArgs == InitArgs /\ [][NextArgs]_vars

(* SpecReg: two goroutines that call NewGroup, GetGroup and               *)
(* DeregisterGroup on two names.                                           *)

\* a Group on which nobody calls anything
GroupIdle == NewGroupState(0, {}, [p \in Procs |-> 0])

InitReg ==
    /\ now = 1
    /\ LruIdle
    /\ GroupIdle
    /\ RingIdle
    /\ FlightIdle
    /\ groups = <<>>
    /\ mu = [w |-> NoProc, r |-> {}]
    /\ initPeerServerOnce = FALSE
    /\ created = 0
    /\ rcall = [r \in RegProcs |-> [NoRegCall EXCEPT !.left = MaxRegCalls]]

NextReg ==
    \/ \E r \in RegProcs, n \in GroupNames,
          o \in {"NewGroup", "GetGroup", "DeregisterGroup"}, g \in BOOLEAN :
          RegCall(r, n, o, g)
    \/ \E r \in RegProcs : RegLock(r)
    \/ \E r \in RegProcs : RegCheck(r)
    \/ \E r \in RegProcs : RegStore(r)
    \/ \E r \in RegProcs : RegRead(r)
    \/ \E r \in RegProcs : RegRUnlock(r)
    \/ \E r \in RegProcs : RegDelete(r)
    \/ \E r \in RegProcs : RegUnlock(r)

SpecReg == InitReg /\ [][NextReg]_vars

(* SpecRing: a consistenthash.Map with any hash function and any replicas, *)
(* filled by Add and asked by Get.                                         *)

InitRing ==
    /\ now = 1
    /\ LruIdle
    /\ GroupIdle
    /\ RegistryIdle
    /\ FlightIdle
    /\ \E n \in 0..MaxReplicas, fn \in Hashes : ring = NewRing(n, fn)
    /\ ringOp = NoRingOp
    /\ picker = NewPicker("server", OtherAddr, [x \in RingStrings |-> 0])

NextRing ==
    \/ \E keys \in AddLists : RingAdd(keys)
    \/ \E key \in RingKeys : RingGet(key)

SpecRing == InitRing /\ [][NextRing]_vars

(* SpecPick: a server or an HTTPPool with any hash function, whose own     *)
(* address is one of the peers or none of them, under SetPeers / Set and   *)
(* PickPeer.                                                               *)

InitPick ==
    /\ now = 1
    /\ LruIdle
    /\ GroupIdle
    /\ RegistryIdle
    /\ FlightIdle
    /\ ring = NewRing(0, [x \in RingStrings |-> 0])
    /\ ringOp = NoRingOp
    /\ \E impl \in {"server", "http"}, self \in RingPeers \cup {OtherAddr},
          fn \in Hashes : picker = NewPicker(impl, self, fn)

NextPick ==
    \/ \E peersAddr \in SetLists : PickerSet(peersAddr)
    \/ \E key \in RingKeys : PickerPick(key)

SpecPick == InitPick /\ [][NextPick]_vars

(* SpecSF: three goroutines that call Do on two keys of one                *)
(* singleflight.Group.                                                     *)

InitSF ==
    /\ now = 1
    /\ LruIdle
    /\ GroupIdle
    /\ RegistryIdle
    /\ RingIdle
    /\ flight = <<>>
    /\ calls = <<>>
    /\ doer = [d \in SfProcs |-> [NoDo EXCEPT !.left = MaxSfCalls]]

NextSF ==
    \/ \E d \in SfProcs, k \in SfKeys : SfCall(d, k)
    \/ \E d \in SfProcs : SfLookup(d)
    \/ \E d \in SfProcs : SfWait(d)
    \/ \E d \in SfProcs, o \in FnOutcomes : SfFn(d, o)
    \/ \E d \in SfProcs : SfDone(d)
    \/ \E d \in SfProcs : SfDelete(d)

SpecSF == InitSF /\ [][NextSF]_vars

(* SpecExp: one caller on a group without peers whose Sets carry an        *)
(* expiry, while the clock advances.                                       *)

\* number of calls of that caller
MaxExpCalls == 5

ExpKeys == {KeyB, KeyC}

ExpValues == {<<3>>}

\* the expire argument of Set: none, or the time 1
ExpExpiries == {NoExpire, 1}

\* the clock of the group advances
GroupTick ==
    /\ now < MaxTime
    /\ now' = now + 1
    /\ UNCHANGED <<lruVars, groupVars>>

InitExp ==
    /\ now = 1
    /\ LibIdle
    /\ LruIdle
    /\ NewGroupState(CacheCap, {},
                     [p \in Procs |-> IF p = Caller THEN MaxExpCalls ELSE 0])

NextExp ==
    \/ GroupTick
    \/ \E p \in Procs, k \in ExpKeys : GroupGet(p, k, FALSE)
    \/ \E p \in Procs : LookupHot(p)
    \/ \E p \in Procs : LoadDo(p)
    \/ \E p \in Procs : RecheckMain(p)
    \/ \E p \in Procs : RecheckHot(p)
    \/ \E p \in Procs, o \in LoaderOutcomes : GetLocally(p, o)
    \/ \E p \in Procs : PopAdd(p)
    \/ \E p \in Procs : PopMain(p)
    \/ \E p \in Procs : PopHot(p)
    \/ \E p \in Procs : PopEvict(p)
    \/ \E p \in Procs : LoadDone(p)
    \/ \E p \in Procs : LoadDelete(p)
    \/ \E p \in Procs : GetRet(p)
    \/ \E p \in Procs, k \in ExpKeys, v \in ExpValues, e \in ExpExpiries :
          GroupSet(p, k, v, e, FALSE)
    \/ \E p \in Procs : SetLock(p)
    \/ \E p \in Procs : SetUnlock(p)
    \/ \E p \in Procs : SetDone(p)
    \/ \E p \in Procs : SetDelete(p)

SpecExp == InitExp /\ [][NextExp]_vars

----------------------------------------------------------------------------
(* Properties of the Group.                                                *)

Finished(p, kind) == op[p].kind = kind /\ Idle(p)

\* every call so far is a Get of one locally owned key whose loaded value
\* fits the cache, and the loader has not failed
C1_Traffic ==
    /\ onlyGetsOf.st = "one"
    /\ ~PickPeer(onlyGetsOf.key).ok
    /\ cacheBytes >= Len(onlyGetsOf.key) + Len(LoaderValue(onlyGetsOf.key))
    /\ Stats.LocalLoadErrs = 0

\* C1: while the only traffic is Gets of one locally owned, initially absent
\* key whose value fits the cache, the loader runs at most once and
\* LoadsDeduped is at most 1; once a Get has returned nil both are exactly 1.
C1_LoaderOnce ==
    C1_Traffic =>
        /\ loaderCalls[onlyGetsOf.key] <= 1
        /\ Stats.LoadsDeduped <= 1
        /\ (\E p \in Procs : Finished(p, "Get") /\ result[p] = "nil")
              => /\ loaderCalls[onlyGetsOf.key] = 1
                 /\ Stats.LoadsDeduped = 1

\* both callers missed on their first lookup of the same key, both have
\* returned, and the loader ran once
C1_Witness ==
    /\ C1_Traffic
    /\ \A p \in Procs : Finished(p, "Get") /\ result[p] = "nil" /\ fr[p].missed
    /\ Stats.Loads = 2
    /\ loaderCalls[onlyGetsOf.key] = 1

\* C2: a Get that missed on its first lookup and returned nil has in its
\* sink the value its load produced (from the loader, the re-check or the
\* owner peer), which is not empty.
C2_SinkHoldsLoaded ==
    \A p \in Procs :
        (Finished(p, "Get") /\ result[p] = "nil" /\ fr[p].missed)
        => /\ sink[p].set
           /\ ~fr[p].viewi.isNil
           /\ sink[p].v = fr[p].viewi.v
           /\ ViewLen(sink[p].v) > 0

\* C3: a Get whose load ended with an error e (a failed loader, or a
\* terminal error of the owner peer) returns e as an ordinary error value:
\* no caller panics.
C3_ErrorReturned ==
    /\ ~crashed
    /\ \A p \in Procs :
          (op[p].kind = "Get" /\ fr[p].err # "nil" /\ pc[p] \in {"idle", "panic"})
          => /\ pc[p] = "idle"
             /\ result[p] = fr[p].err

\* C4: a Get that follows a local Set(k, v, no expiry) which returned nil,
\* with nothing in between, hits the cache, delivers v and does not load.
C4_SetThenGet ==
    \A p \in Procs :
        (op[p].kind = "Get" /\ fr[p].tag.kind = "set"
         /\ fr[p].tag.expire = NoExpire)
        => /\ ~fr[p].missed
           /\ ~fr[p].loaded
           /\ Idle(p) => /\ fr[p].hit
                         /\ result[p] = "nil"
                         /\ sink[p].set
                         /\ sink[p].v = view(fr[p].tag.value, NoExpire)

\* C5: the Get that follows Set(k, v) and then Remove(k), both returned nil,
\* hits neither cache, neither on its first lookup nor on the re-check, and
\* calls the loader.
C5_RemoveThenMiss ==
    \A p \in Procs :
        (op[p].kind = "Get" /\ fr[p].tag.kind = "remove")
        => /\ ~fr[p].hit
           /\ pc[p] \in {"loadDone", "loadDelete", "getRet", "idle", "panic"}
                 => fr[p].missed /\ fr[p].loaded

\* the key was Set twice and removed; the Get after the Remove loaded the
\* key again, next to the list element the first Set left behind
C5_Witness ==
    \E p \in Procs :
        /\ Finished(p, "Get")
        /\ fr[p].tag.kind = "remove"
        /\ result[p] = "nil"
        /\ fr[p].loaded
        /\ \E i \in 2..Len(mainCache.lru.ll) :
              mainCache.lru.ll[i].key = op[p].key

\* the step in which populateCache returns to its caller
PopReturns(p) ==
    \/ pc[p] = "popHot" /\ pc'[p] \notin {"popHot", "popEvict"}
    \/ pc[p] = "popAdd" /\ pc'[p] \notin {"popAdd", "popMain"}

\* another caller is in populateCache between its add and its return
PopBusy(q) == pc[q] \in {"popMain", "popHot", "popEvict"}

\* C6 as stated: whenever populateCache returns, the two caches together
\* hold at most cacheBytes, also when populates run concurrently.
C6_AlwaysWithinBudget ==
    [][\A p \in Procs :
          PopReturns(p) => bytes(mainCache') + bytes(hotCache') <= cacheBytes
      ]_vars

\* C6: whenever populateCache returns while no other populateCache call is
\* between its add and its return, the two caches together hold at most
\* cacheBytes.
C6_WithinBudgetWhenAlone ==
    [][\A p \in Procs :
          (PopReturns(p) /\ \A q \in Others(p) : ~PopBusy(q))
          => bytes(mainCache') + bytes(hotCache') <= cacheBytes
      ]_vars

\* a Set has come back from populateCache while the other caller, which
\* loaded a different key next to it, is still in its call; one of the two
\* entries was evicted
C6_Witness ==
    \E p \in Procs, q \in Procs :
        /\ pc[p] = "setUnlock"
        /\ pc[q] = "loadDone"
        /\ fr[q].loaded
        /\ op[p].key # op[q].key
        /\ Len(mainCache.lru.ll) = 1
        /\ bytes(mainCache) + bytes(hotCache) <= cacheBytes

\* the key of the call of p is indexed by neither cache
NotCached(p) ==
    /\ op[p].key \notin DOMAIN mainCache.lru.cache
    /\ op[p].key \notin DOMAIN hotCache.lru.cache

\* C12: after a Remove that no other call overlapped has returned, with nil
\* or with an error, neither mainCache nor hotCache holds the key.
C12_RemovedLocally ==
    \A p \in Procs : (Finished(p, "Remove") /\ fr[p].solo) => NotCached(p)

\* C13: a Remove one of whose broadcast peers answered with an error
\* returns a non-nil error.
C13_BroadcastErrorReturned ==
    \A p \in Procs :
        (Finished(p, "Remove") /\ fr[p].bcErr) => result[p] # "nil"

\* the Remove body of p has ended (p is at the end of Do or has returned)
RmBodyOver(p) == pc[p] \in {"rmDone", "rmDelete", "idle"}

\* C14: a Remove body whose owner removal did not fail sends at most one
\* request to any peer, and when the body is over exactly one request has
\* been made to every peer of GetAll (the owner included) and none to others.
C14_OneRequestPerPeer ==
    \A p \in Procs :
        (op[p].kind = "Remove" /\ fr[p].ran /\ ~fr[p].ownerErr)
        => /\ \A peer \in {PeerB, PeerC} : fr[p].sent[peer] <= 1
           /\ RmBodyOver(p) =>
                 \A peer \in {PeerB, PeerC} :
                     fr[p].sent[peer] = IF peer \in GetAll THEN 1 ELSE 0

\* a Remove of a key owned by peer B has returned after one request to B
\* and one to C
C14_Witness ==
    \E p \in Procs :
        /\ Finished(p, "Remove")
        /\ fr[p].ran
        /\ fr[p].owner = PeerB
        /\ fr[p].sent[PeerB] = 1
        /\ fr[p].sent[PeerC] = 1

\* p is executing the Remove body
InRmBody(p) ==
    /\ op[p].kind = "Remove"
    /\ pc[p] \in {"rmOwner", "rmLock", "rmHot", "rmMain", "bcast", "rmDone"}

AfterLoad(p) == pc[p] \in {"loadDone", "loadDelete", "getRet", "idle", "panic"}

\* a Get that no other call overlapped fetched its key from the owner peer
C16_Fetched(p) ==
    op[p].kind = "Get" /\ fr[p].solo /\ fr[p].peerOk /\ AfterLoad(p)

\* hotCache maps the key to the fetched value, PeerLoads went up by one, the
\* loader was not called and mainCache is as it was when the Get began
C16_Effect(p) ==
    /\ op[p].key \in DOMAIN hotCache.lru.cache
    /\ Indexed(hotCache.lru, op[p].key).value = fr[p].value
    /\ Stats.PeerLoads = fr[p].pre.PeerLoads + 1
    /\ loaderCalls[op[p].key] = fr[p].loads0
    /\ mainCache = fr[p].pre.main

\* the caches had room for the fetched entry when the Get began
C16_Room(p) ==
    bytes(fr[p].pre.main) + bytes(fr[p].pre.hot)
        + Len(op[p].key) + ViewLen(fr[p].value) <= cacheBytes

HeldKeys(c) == {c.lru.ll[i].key : i \in 1..Len(c.lru.ll)} \cup DOMAIN c.lru.cache

C18_FallbackRule ==
    \A p \in Procs :
        (op[p].kind = "Get" /\ fr[p].peerErr # "nil" /\ AfterLoad(p))
        => LET other == fr[p].peerErr \notin
                           {"Canceled", "ErrNotFound", "ErrRemoteCall"}
           IN /\ fr[p].loaded <=> (other /\ ~fr[p].ctxDead)
              /\ fr[p].solo =>
                    /\ Stats.PeerErrors =
                          fr[p].pre.PeerErrors + (IF other THEN 1 ELSE 0)
                    /\ loaderCalls[op[p].key] =
                          fr[p].loads0 + (IF fr[p].loaded THEN 1 ELSE 0)
                    /\ ~fr[p].loaded =>
                          /\ mainCache = fr[p].pre.main
                          /\ hotCache = fr[p].pre.hot

\* after a transient peer error the loader served the Get
C18_Witness ==
    \E p \in Procs :
        /\ Finished(p, "Get")
        /\ fr[p].peerErr = "ErrPeer"
        /\ fr[p].loaded
        /\ result[p] = "nil"
        /\ Stats.PeerErrors = 1

\* a view whose non-zero expiry lies before the current time
Stale(v) == v.e # NoExpire /\ now > v.e

\* C19: hotCache never holds, and no sink ever receives, a value whose
\* non-zero expiry had passed when the peer's response arrived.
C19_NoExpiredResponse ==
    /\ \A i \in 1..Len(hotCache.lru.ll) : ~Stale(hotCache.lru.ll[i].value)
    /\ \A p \in Procs : sink[p].set => ~Stale(sink[p].v)

\* the owner answered with an expired value; the Get was served by the
\* loader and the key is not in hotCache
C19_Witness ==
    \E p \in Procs :
        /\ Finished(p, "Get")
        /\ fr[p].peerErr = "ErrExpired"
        /\ result[p] = "nil"
        /\ sink[p].v.b = LoaderValue(op[p].key)
        /\ op[p].key \notin DOMAIN hotCache.lru.cache

\* C20: with cacheBytes = 0 both caches hold no items and no bytes, no hit
\* is ever counted or delivered, and a Get of a locally owned key that
\* overlaps no other Get of the key calls the loader, exactly once.
C20_NoCaching ==
    cacheBytes = 0 =>
        /\ items(mainCache) = 0 /\ items(hotCache) = 0
        /\ bytes(mainCache) = 0 /\ bytes(hotCache) = 0
        /\ Stats.CacheHits = 0
        /\ \A p \in Procs :
              /\ ~fr[p].hit
              /\ (/\ op[p].kind = "Get" /\ ~op[p].nilDest
                  /\ ~PickPeer(op[p].key).ok
                  /\ ~fr[p].twin /\ AfterLoad(p))
                 => /\ fr[p].loaded
                    /\ (fr[p].solo \/ pc[p] # "idle") =>
                          loaderCalls[op[p].key] = fr[p].loads0 + 1

\* two Gets of one key, one after the other, each called the loader
C20_Witness ==
    /\ cacheBytes = 0
    /\ \A p \in Procs :
          /\ Finished(p, "Get")
          /\ op[p].key = KeyA
          /\ ~fr[p].twin
          /\ fr[p].loaded
    /\ loaderCalls[KeyA] = 2

\* no Get call is in progress
NoGetInProgress ==
    /\ ~crashed
    /\ \A p \in Procs : op[p].kind = "Get" => Idle(p)

\* C21: whenever no Get call is in progress, Loads = Gets - CacheHits.
C21_LoadsAreGetsLessHits ==
    NoGetInProgress => Stats.Loads = Stats.Gets - Stats.CacheHits

\* C22: whenever no load is in progress GetFromPeersLatencyLower is at
\* least the elapsed time of every peer Get made, and no step lowers it.
C22_LatencyIsMax ==
    [][/\ Stats'.GetFromPeersLatencyLower >= Stats.GetFromPeersLatencyLower
       /\ NoGetInProgress' =>
             \A p \in Procs :
                Stats'.GetFromPeersLatencyLower >= fr'[p].dur]_vars

\* a call whose arguments the Group does not accept
BadArgs(call) ==
    \/ call.kind \in {"Get", "Set"} /\ call.key = EmptyKey
    \/ call.kind = "Get" /\ call.nilDest

\* C23: Get or Set with an empty key and Get with a nil sink return a
\* validation error; the call has not looked into a cache, called the
\* loader or a peer, and the empty key is in neither cache.
C23_BadArgsRejected ==
    \A p \in Procs :
        (Idle(p) /\ BadArgs(op[p]))
        => /\ result[p] \in {"ErrEmptyKey", "ErrNilSink"}
           /\ ~fr[p].hit /\ ~fr[p].missed
           /\ ~fr[p].loaded
           /\ ~fr[p].peerOk /\ fr[p].peerErr = "nil"
           /\ op[p].key = EmptyKey =>
                 EmptyKey \notin HeldKeys(mainCache) \cup HeldKeys(hotCache)

\* the Set body of p has run to its end and no other call overlapped it
SetBodyOver(p) ==
    /\ op[p].kind = "Set" /\ op[p].key # EmptyKey
    /\ fr[p].solo
    /\ pc[p] \in {"setDone", "setDelete", "idle"}

\* the cache maps the key of p's Set to the value and expiry of that Set
HoldsSet(c, p) ==
    /\ op[p].key \in DOMAIN c.lru.cache
    /\ Indexed(c.lru, op[p].key).value = view(op[p].value, op[p].expire)

\* one request went to the owner and none to any other peer
C24_OneToOwner(p) ==
    \A peer \in DOMAIN fr[p].sent :
        fr[p].sent[peer] = IF peer = PickPeer(op[p].key).peer THEN 1 ELSE 0

\* what the claim says of a Set body; room is the condition under which
\* the cache that is written keeps the value and the other cache is left
\* alone
C24_Effect(p, room) ==
    IF PickPeer(op[p].key).ok
    THEN /\ C24_OneToOwner(p)
         /\ (fr[p].err # "nil" /\ Idle(p)) => result[p] = fr[p].err
         /\ ~(fr[p].err = "nil" /\ op[p].hot) =>
               /\ hotCache = fr[p].pre.hot
               /\ mainCache = fr[p].pre.main
         /\ (fr[p].err = "nil" /\ op[p].hot /\ room) =>
               /\ HoldsSet(hotCache, p)
               /\ mainCache = fr[p].pre.main
    ELSE /\ \A peer \in DOMAIN fr[p].sent : fr[p].sent[peer] = 0
         /\ room => /\ HoldsSet(mainCache, p)
                    /\ hotCache = fr[p].pre.hot

\* the two caches had room for the entry when the Set began
C24_Room(p) ==
    bytes(fr[p].pre.main) + bytes(fr[p].pre.hot)
        + Len(op[p].key) + Len(op[p].value) <= cacheBytes

\* C24 as stated: a Set body for a remotely owned key sends one request to
\* the owner, writes hotCache exactly when the request succeeded and alsoHot
\* is set, never writes mainCache, and on failure returns the error with
\* both caches unchanged; for a local key no peer is contacted and the
\* value is written to mainCache only.
C24_SetWritesOneTier ==
    \A p \in Procs : SetBodyOver(p) => C24_Effect(p, TRUE)

\* C24: the same, where the written cache holds the value afterwards and
\* the other cache is unchanged when the two caches had room for the entry.
C24_SetWritesOneTierWithRoom ==
    \A p \in Procs : SetBodyOver(p) => C24_Effect(p, C24_Room(p))

\* a Set with alsoHot for a remote key succeeded and hotCache holds its value
C24_Witness ==
    \E p \in Procs :
        /\ SetBodyOver(p) /\ Idle(p)
        /\ PickPeer(op[p].key).ok
        /\ op[p].hot
        /\ result[p] = "nil"
        /\ C24_Room(p)
        /\ HoldsSet(hotCache, p)

\* the registered group of a name, NilGroup when there is none
Registered(g, name) == IF name \in DOMAIN g THEN g[name] ELSE NilGroup

\* goroutine r takes the step of its call that decides the call's result
RegDecides(r, at) == rcall[r].pc = at /\ rcall'[r].pc # at

\* C25: the registry holds at most one group per name, under concurrent
\* calls: a NewGroup of a registered name panics and leaves the registry as
\* it was, a NewGroup of a free name registers a fresh group without
\* replacing any, GetGroup returns the group registered at that moment or
\* nil, DeregisterGroup leaves the name free, and no other step changes the
\* registry; no group is registered under two names.
C25_OneGroupPerName ==
    [][/\ \A r \in RegProcs :
            LET name == rcall[r].name IN
            /\ RegDecides(r, "body") /\ rcall[r].op = "NewGroup" =>
                  IF name \in DOMAIN groups
                  THEN rcall'[r].panicked /\ rcall'[r].pc = "idle"
                       /\ groups' = groups
                  ELSE ~rcall'[r].panicked /\ rcall'[r].pc = "store"
                       /\ rcall'[r].ret # NilGroup
                       /\ \A n \in DOMAIN groups : groups[n] # rcall'[r].ret
            /\ RegDecides(r, "store") =>
                  /\ name \notin DOMAIN groups
                  /\ Registered(groups', name) = rcall[r].ret
                  /\ \A n \in GroupNames \ {name} :
                        Registered(groups', n) = Registered(groups, n)
            /\ RegDecides(r, "body") /\ rcall[r].op = "GetGroup" =>
                  rcall'[r].ret = Registered(groups, name)
            /\ RegDecides(r, "body") /\ rcall[r].op = "DeregisterGroup" =>
                  /\ Registered(groups', name) = NilGroup
                  /\ \A n \in GroupNames \ {name} :
                        Registered(groups', n) = Registered(groups, n)
       /\ groups' # groups =>
             \E r \in RegProcs :
                 \/ RegDecides(r, "store")
                 \/ RegDecides(r, "body") /\ rcall[r].op = "DeregisterGroup"
       /\ \A n, m \in DOMAIN groups' : groups'[n] = groups'[m] => n = m
      ]_vars

\* a name was registered, deregistered and registered again, and a GetGroup
\* returned the second group
C25_Witness ==
    \E r \in RegProcs :
        /\ rcall[r].pc = "idle" /\ rcall[r].op = "GetGroup"
        /\ rcall[r].ret = 2
        /\ Registered(groups, rcall[r].name) = 2
        /\ created = 2

\* the hashes of the virtual points of the peers P on ring m
Points(m, P) == {m.hash[Itoa(i) \o q] : i \in 0..(m.replicas - 1), q \in P}

\* the smallest element of a non-empty set of integers
Least(S) == CHOOSE x \in S : \A y \in S : x <= y

\* the point that serves hash h: the smallest point >= h, or else the
\* smallest point of all
Serving(pts, h) ==
    IF \E x \in pts : x >= h THEN Least({x \in pts : x >= h}) ELSE Least(pts)

\* C26: on a ring built by Add from a non-empty peer set P with replicas
\* >= 1, Get(key) returns a member of P one of whose virtual points has the
\* smallest hash >= h(key), or the smallest hash of all when h(key) exceeds
\* every point; on an empty ring Get returns the empty string.
C26_GetReturnsOwner ==
    ringOp.did =>
        LET P == ringOp.added
            pts == Points(ring, P)
        IN IF P # {} /\ ring.replicas >= 1
           THEN /\ ringOp.ret \in P
                /\ \E i \in 0..(ring.replicas - 1) :
                      ring.hash[Itoa(i) \o ringOp.ret]
                          = Serving(pts, ring.hash[ringOp.key])
           ELSE ring.keys = <<>> /\ ringOp.ret = ""

\* a Get whose key hashes above every point of a ring of two peers with
\* two replicas each and two distinct points, served by the smaller one
C26_Witness ==
    /\ ringOp.did
    /\ ringOp.added = RingPeers
    /\ ring.replicas = 2
    /\ Cardinality(Points(ring, RingPeers)) >= 2
    /\ \A x \in Points(ring, RingPeers) : x < ring.hash[ringOp.key]
    /\ ringOp.ret # ""

\* the goroutines whose Do allocated a call for key k and has not yet
\* deleted it from the map
Creators(k) ==
    {d \in SfProcs : doer[d].key = k /\ doer[d].pc \in {"fn", "done", "delete"}}

\* C27: a singleflight Group holds at most one call record per key at any
\* instant: the key is in the map exactly while the one Do that allocated
\* its record is between the allocation and the delete that follows its fn,
\* the map holds that Do's record, and the map is empty whenever no Do is
\* in progress.
C27_OneRecordPerKey ==
    /\ \A k \in SfKeys :
          /\ Cardinality(Creators(k)) <= 1
          /\ k \in DOMAIN flight <=> Creators(k) # {}
          /\ \A d \in Creators(k) :
                k \in DOMAIN flight /\ flight[k] = doer[d].c
    /\ (\A d \in SfProcs : doer[d].pc \in {"idle", "lookup"}) => flight = <<>>

\* a key whose record was deleted has a second record, younger than the
\* first, while another key has a record as well
C27_Witness ==
    /\ "a" \in DOMAIN flight /\ "b" \in DOMAIN flight
    /\ Len(calls) >= 3
    /\ \E c \in 1..Len(calls) :
          /\ c < flight["a"] /\ calls[c].done /\ calls[c].runs = 1
          /\ \E d \in SfProcs :
                doer[d].c = c /\ doer[d].returned /\ doer[d].key = "a"

\* C28: every Do that found the call record of another caller returns the
\* (value, error) pair written by the one fn execution of the caller that
\* allocated the record, returns only after that fn has finished, and its
\* own fn is never executed; the allocating caller returns the same pair.
C28_WaitersShareResult ==
    /\ \A c \in 1..Len(calls) : calls[c].runs <= 1
    /\ \A d \in SfProcs :
          /\ doer[d].joined =>
                /\ ~doer[d].ran
                /\ calls[doer[d].c].by # d
          /\ doer[d].returned =>
                /\ calls[doer[d].c].done
                /\ calls[doer[d].c].runs = 1
                /\ doer[d].val = calls[doer[d].c].val
                /\ doer[d].err = calls[doer[d].c].err
                /\ doer[d].ran <=> calls[doer[d].c].by = d

\* two waiters and the allocating caller have returned the error of one fn
\* execution
C28_Witness ==
    \E c \in 1..Len(calls) :
        /\ calls[c].err = "failed"
        /\ \A d \in SfProcs :
              /\ doer[d].returned
              /\ doer[d].c = c
              /\ doer[d].err = "failed"
        /\ Cardinality({d \in SfProcs : doer[d].joined}) = 2

\* p executes the body of localSet or of localRemove inside loadGroup.Lock
InLockBody(p) == loadGroup.mu = p /\ op[p].kind \in {"Set", "Remove"}

\* the load body of q is between its re-check of the caches and the end of
\* its populate step
MidPopulate(q) ==
    /\ op[q].kind = "Get"
    /\ pc[q] \in {"peerGet", "latency", "latStore", "getLocally", "popAdd",
                  "popMain", "popHot", "popEvict"}

\* C29: while the body of localSet or localRemove for key k executes
\* inside loadGroup.Lock, no load body for k is between its cache re-check
\* and the end of its populate step.
C29_NoLoadMidPopulate ==
    \A p \in Procs : \A q \in Others(p) :
        InLockBody(p) /\ op[q].key = op[p].key => ~MidPopulate(q)

\* a Get that hit a cache delivered a value that had not expired at the
\* time of the lookup
C30_Fresh ==
    \A p \in Procs :
        Finished(p, "Get") /\ fr[p].hit =>
            sink[p].set /\ ~Expired(sink[p].v.e, fr[p].hitAt)

\* p's Get follows, with nothing in between, a local Set(k, v, expiry) that
\* returned nil
AfterSetWithExpiry(p) ==
    op[p].kind = "Get" /\ fr[p].tag.kind = "set" /\ fr[p].tag.expire # NoExpire

\* the first such Get, issued after the expiry, misses and, once over, has
\* invoked the loader
C30_MissAfterExpiry ==
    \A p \in Procs :
        AfterSetWithExpiry(p) /\ ~fr[p].tag.seen
        /\ fr[p].at > fr[p].tag.expire =>
            /\ ~fr[p].hit
            /\ Idle(p) => /\ fr[p].missed
                          /\ loaderCalls[op[p].key] = fr[p].loads0 + 1

\* such a Get issued before the expiry delivers v from the cache
C30_HitBeforeExpiry ==
    \A p \in Procs :
        AfterSetWithExpiry(p) /\ fr[p].at <= fr[p].tag.expire =>
            /\ ~fr[p].missed
            /\ Idle(p) => /\ fr[p].hit
                          /\ sink[p].set
                          /\ sink[p].v = view(fr[p].tag.value, fr[p].tag.expire)

\* C30: a Group.Get never delivers from mainCache or hotCache a value whose
\* non-zero expiry is strictly earlier than the current time: a Get of a
\* locally owned key issued after the expiry set by Set(k, v, expiry)
\* misses and invokes the loader, while a Get issued before the expiry
\* delivers v.
C30_ExpiryRespected ==
    /\ C30_Fresh
    /\ C30_MissAfterExpiry
    /\ C30_HitBeforeExpiry

\* C32: every Group.Get, Group.Set and Group.Remove call eventually
\* returns, provided every loader call and every peer call returns.
C32_CallsReturn ==
    \A p \in Procs : (pc[p] # "idle") ~> (pc[p] = "idle")

\* every call eventually returns or the process has panicked: no call is
\* stuck in a singleflight wait, in the loadGroup.Lock gate or in the join
\* of the Remove broadcast
C32_NoDeadlock ==
    \A p \in Procs : (pc[p] # "idle") ~> (pc[p] = "idle" \/ crashed)

\* the step in which p runs one iteration of the eviction loop of
\* populateCache to its end: victim.removeOldest()
Evicts(p) == pc[p] = "popEvict" /\ pc'[p] = "popMain"

\* the iteration of p evicts from the cache picked, which is not empty, and
\* removes exactly one entry from it
EvictsOne(p) ==
    IF fr[p].victim = "hot"
    THEN /\ LruLen(hotCache.lru) > 0
         /\ LruLen(hotCache'.lru) = LruLen(hotCache.lru) - 1
         /\ mainCache' = mainCache
    ELSE /\ LruLen(mainCache.lru) > 0
         /\ LruLen(mainCache'.lru) = LruLen(mainCache.lru) - 1
         /\ hotCache' = hotCache

\* C34 as stated: in every reachable state, each iteration of the eviction
\* loop of populateCache evicts from a cache that is not empty and removes
\* exactly one entry from it.
C34_EveryIterationEvicts ==
    [][\A p \in Procs : Evicts(p) => EvictsOne(p)]_vars

\* C34: no iteration of the eviction loop adds an entry to either cache; in
\* a call that no other call overlaps, each iteration runs because the two
\* caches hold more than cacheBytes, picks hotCache when hotBytes >
\* mainBytes/8 and mainCache otherwise, finds the cache picked non-empty and
\* removes exactly one entry from it, so the loop ends after at most as
\* many iterations as the caches hold entries.
C34_IterationEvictsWhenAlone ==
    [][\A p \in Procs :
          Evicts(p) =>
             /\ LruLen(mainCache'.lru) <= LruLen(mainCache.lru)
             /\ LruLen(hotCache'.lru) <= LruLen(hotCache.lru)
             /\ fr[p].solo =>
                   /\ bytes(mainCache) + bytes(hotCache) > cacheBytes
                   /\ fr[p].victim = "hot" <=>
                         bytes(hotCache) > Quot(bytes(mainCache), 8)
                   /\ EvictsOne(p)
      ]_vars

\* a Get that ran alone loaded an entry larger than cacheBytes next to an
\* entry of hotCache, evicted the entry of hotCache in a first iteration and
\* is about to evict its own entry from mainCache in a second
C34_Witness ==
    \E p \in Procs :
        /\ fr[p].solo
        /\ op[p].kind = "Get"
        /\ pc[p] = "popEvict"
        /\ fr[p].victim = "main"
        /\ LruLen(hotCache.lru) = 0
        /\ Stats.PeerLoads > 0
        /\ LruLen(mainCache.lru) = 1
        /\ bytes(mainCache) > cacheBytes

----------------------------------------------------------------------------
(* Properties of the cache wrapper and of the LRU list.                    *)

RECURSIVE ListBytes(_)
\* len(key) + value.Len() summed over the elements of a list
ListBytes(ll) ==
    IF ll = <<>> THEN 0
    ELSE Len(ll[1].key) + ViewLen(ll[1].value) + ListBytes(Tail(ll))

\* C7: after every add, get, remove and removeOldest, nbytes equals the sum
\* of len(key) + value.Len() over the entries the cache holds, and is never
\* negative.
C7_BytesMatchEntries ==
    /\ mainCache.nbytes = ListBytes(mainCache.lru.ll)
    /\ mainCache.nbytes >= 0

\* C8: the index map and the list hold the same keys, every key is held by
\* exactly one list element, the map entry of a key points to that element,
\* and Len() is the number of map entries.
C8_MapMatchesList ==
    /\ DOMAIN lru.cache = {lru.ll[i].key : i \in 1..Len(lru.ll)}
    /\ \A i, j \in 1..Len(lru.ll) : lru.ll[i].key = lru.ll[j].key => i = j
    /\ \A k \in DOMAIN lru.cache : lru.ll[lru.cache[k]].key = k
    /\ LruLen(lru) = Cardinality(DOMAIN lru.cache)

\* C9: after Add of a key that was present (with an expiry that has not
\* passed), Get of the key returns the new value, and that Add fired the
\* eviction callback exactly once, with the key and the old value.
C9_ReAddReplaces ==
    (/\ lastOp.op = "Add"
     /\ lastOp.present
     /\ (lastOp.expire = NoExpire \/ lastOp.expire >= now))
    => LET r == Get(lru, lastOp.key, now)
       IN /\ r.ok
          /\ r.value = lastOp.value
          /\ lastOp.ev = <<[key |-> lastOp.key, value |-> lastOp.old]>>

\* the last operation was a Get of a key the index map held with a
\* non-zero expiry
C11_GetOfExpiring ==
    lastOp.op = "Get" /\ lastOp.present /\ lastOp.expire # NoExpire

\* the Get missed, the key left the index map, and the callback fired once,
\* with the key and the value that was stored
C11_Miss ==
    /\ ~lastOp.ok
    /\ lastOp.key \notin DOMAIN lru.cache
    /\ lastOp.ev = <<[key |-> lastOp.key, value |-> lastOp.old]>>

\* the Get hit with the stored value and the callback did not fire
C11_Hit ==
    /\ lastOp.ok
    /\ lastOp.value = lastOp.old
    /\ lastOp.ev = <<>>

\* C11 as stated: a Get of an entry with non-zero expiry t misses, removes
\* the entry and fires the callback once when now >= t, and hits with the
\* stored value when now < t.
C11_MissFromExpiry ==
    C11_GetOfExpiring =>
        IF now >= lastOp.expire THEN C11_Miss ELSE C11_Hit

\* C11: a Get of an entry with non-zero expiry t misses, removes the entry
\* and fires the callback once when now > t, and hits with the stored value
\* when now <= t.
C11_MissAfterExpiry ==
    C11_GetOfExpiring =>
        IF now > lastOp.expire THEN C11_Miss ELSE C11_Hit

\* a Get at a time past the expiry of the entry has missed
C11_Witness ==
    /\ C11_GetOfExpiring
    /\ now > lastOp.expire
    /\ C11_Miss

\* C10: with MaxEntries = n > 0 the list never holds more than n elements,
\* and after Adds of k pairwise distinct keys to a new LRU the callback has
\* been called for exactly the first k - n keys, once each, oldest first.
C10_EvictsOldestFirst ==
    lru.MaxEntries > 0 =>
        /\ LruLen(lru) <= lru.MaxEntries
        /\ onlyAdds => evSeq = SubSeq(addSeq, 1, Len(addSeq) - lru.MaxEntries)

\* three distinct keys were added to an LRU of one entry: two evictions
C10_Witness ==
    /\ onlyAdds
    /\ lru.MaxEntries = 1
    /\ Len(addSeq) = 3
    /\ Len(evSeq) = 2

\* the keys a Get at time t finds
Avail(c, t) ==
    {k \in DOMAIN c.cache : ~Expired(c.ll[c.cache[k]].expire, t)}

RECURSIVE OutLast(_, _, _)
\* under successive RemoveOldest calls, key k becomes unavailable to Get
\* only with or after every other key
OutLast(c, k, t) ==
    IF Len(c.ll) = 0 THEN TRUE
    ELSE LET d == RemoveOldest(c).c
         IN IF k \in Avail(d, t) THEN OutLast(d, k, t)
            ELSE Avail(d, t) = {}

\* C31: the key most recently passed to Add or hit by Get, when it is
\* unexpired, is the most recently used key of the LRU: under successive
\* RemoveOldest calls it is the last key to become unavailable to Get.
C31_RecentKeyOutLast ==
    /\ lastOp.op = "Add" \/ (lastOp.op = "Get" /\ lastOp.ok)
    /\ lastOp.key \in Avail(lru, now)
    => OutLast(lru, lastOp.key, now)

\* C33: on an LRU with MaxEntries = n > 0 that holds n entries, an Add of a
\* key that is present leaves Len() unchanged and removes no other key.
C33_ReAddKeepsOthers ==
    [][/\ lastOp'.op = "Add" /\ lastOp'.present
       /\ lru' # lru
       /\ lru.MaxEntries > 0
       /\ LruLen(lru) = lru.MaxEntries
       => /\ LruLen(lru') = LruLen(lru)
          /\ \A k \in (DOMAIN lru.cache) \ {lastOp'.key} :
                k \in DOMAIN lru'.cache
      ]_vars

----------------------------------------------------------------------------
(* Properties of PickPeer, checked under SpecPick.                         *)

\* the last PickPeer reported a remote owner
PickedRemote == picker.did /\ ~picker.panic /\ picker.ok

\* the last PickPeer reported "local"
PickedLocal == picker.did /\ ~picker.panic /\ ~picker.ok

\* C35: PickPeer reports a remote owner only together with a non-nil handle
\* of a configured peer other than the local process; with an empty peer set,
\* and when the owner of the key is the local process, it reports local.
C35_PickPeer ==
    picker.did =>
        /\ PickedRemote => /\ picker.handle # NoHandle
                           /\ picker.handle \in picker.clients
                           /\ picker.handle # picker.self
        /\ picker.clients = {} => PickedLocal
        /\ (picker.set /\ MapGet(ring, picker.key) = picker.self) => PickedLocal

\* HTTPPool alone, once Set has been called
C35_PoolPickPeer ==
    (picker.impl = "http" /\ picker.set) => C35_PickPeer

\* server alone, with at least one peer set
C35_ServerPickPeer ==
    (picker.impl = "server" /\ picker.clients # {}) => C35_PickPeer

\* the state after NewServer(addr), SetPeers() and PickPeer(key): a remote
\* owner is reported, with the nil client
C35_ServerEmptyRemote ==
    /\ picker.impl = "server" /\ picker.set /\ picker.clients = {}
    /\ PickedRemote /\ picker.handle = NoHandle

----------------------------------------------------------------------------
(* Properties of concurrent Set, Remove and Get, checked under Spec.       *)

\* the Set of p has returned nil for a key whose owner keeps a copy
SetReturnedNil(p) ==
    /\ Idle(p) /\ op[p].kind = "Set" /\ op[p].key # EmptyKey
    /\ result[p] = "nil"
    /\ PickPeer(op[p].key).ok \/ cacheBytes > 0

\* the call of q has handed its value to the owner of the key: setFromPeer
\* to the remote owner, localSet into mainCache otherwise
Handed(q) ==
    /\ op[q].kind = "Set"
    /\ IF PickPeer(op[q].key).ok
       THEN fr[q].sent[PickPeer(op[q].key).peer] > 0
       ELSE /\ fr[q].ret = "setUnlock" /\ fr[q].cache = "main"
            /\ fr[q].value = view(op[q].value, op[q].expire)

\* the value of the Set of p has reached the owner: p handed it over, or a
\* Set of the same key, value and expiry did
Delivered(p) ==
    \E q \in Procs : /\ Handed(q)
                      /\ op[q].key = op[p].key /\ op[q].value = op[p].value
                      /\ op[q].expire = op[p].expire

\* C36: every Set that returns nil has had its own value delivered to the
\* owner of the key, also when another Set of the key with a different
\* value is in flight.
C36_SetDelivered == \A p \in Procs : SetReturnedNil(p) => Delivered(p)

\* the same for a Set that no other call overlaps
C36_SoloSetDelivered ==
    \A p \in Procs : (SetReturnedNil(p) /\ fr[p].solo) => Handed(p)

\* the key is in one of the two caches
Cached(key) ==
    key \in (DOMAIN mainCache.lru.cache) \cup (DOMAIN hotCache.lru.cache)

\* Remove(k) of p has returned nil on the owner of k, it began after the
\* loader had returned its value to a Get(k) in flight, and that Get has
\* returned as well
RemovedDuringLoad(p) ==
    /\ Idle(p) /\ op[p].kind = "Remove" /\ result[p] = "nil"
    /\ ~PickPeer(op[p].key).ok
    /\ fr[p].stale
    /\ \A q \in Others(p) : Idle(q)

\* C37: after a Remove(k) that returned nil on the owner of k while a
\* Get(k) load was in flight, and after that Get has returned, the caches
\* do not hold for k a value the loader returned before the Remove began.
C37_NoStaleAfterRemove ==
    \A p \in Procs : RemovedDuringLoad(p) => ~Cached(op[p].key)

\* the key is in mainCache and in hotCache
InBoth(key) ==
    /\ key \in DOMAIN mainCache.lru.cache
    /\ key \in DOMAIN hotCache.lru.cache

----------------------------------------------------------------------------
(* Properties of Do's record lifecycle, checked under SpecSF.              *)

\* d finds a record in Do's first critical section
SfJoins(d) == doer[d].pc = "lookup" /\ doer'[d].pc = "wait"

\* the Do call that allocated the record c is still inside Do
CreatorInside(c) ==
    LET by == calls[c].by
    IN /\ by \in SfProcs
       /\ doer[by].c = c
       /\ doer[by].pc \in {"fn", "done", "delete"}

\* C39: a Do call never returns the result of an fn execution that had
\* completed before that Do call began.
C39_NoFinishedResult ==
    \A d \in SfProcs :
        (doer[d].returned /\ doer[d].joined) => doer[d].c # doer[d].old

\* Amended C39: a caller that finds a record finds the one the map holds,
\* and the Do call that allocated it has not yet returned; its fn is still
\* running or has returned and the record is not yet deleted.
C39_JoinsBeforeCreatorReturns ==
    [][\A d \in SfProcs :
          SfJoins(d) => /\ doer'[d].c = flight[doer[d].key]
                        /\ CreatorInside(doer'[d].c)]_vars

\* a caller has returned the result of an fn execution that was over when
\* its Do began and whose record was still in the map
C39_Witness ==
    \E d \in SfProcs :
        /\ doer[d].returned /\ doer[d].joined
        /\ doer[d].old # NilCall /\ doer[d].c = doer[d].old
        /\ doer[d].val = calls[doer[d].c].val

----------------------------------------------------------------------------
(* Properties of the counters of Stats, checked under Spec.                *)

\* the counters the Get path advances
GetCounters == {"Gets", "CacheHits", "Loads", "LoadsDeduped", "LocalLoads",
                "LocalLoadErrs", "PeerLoads"}

\* the order of the counters
CountersOrdered(st) ==
    /\ st.LocalLoads + st.LocalLoadErrs + st.PeerLoads <= st.LoadsDeduped
    /\ st.LoadsDeduped <= st.Loads
    /\ st.Loads <= st.Gets
    /\ st.CacheHits <= st.Gets

\* C40: in every reachable state LocalLoads + LocalLoadErrs + PeerLoads <=
\* LoadsDeduped <= Loads <= Gets and CacheHits <= Gets, and no step makes
\* one of these counters smaller.
C40_CountersOrdered ==
    /\ CountersOrdered(Stats)
    /\ [][/\ CountersOrdered(Stats')
          /\ \A f \in GetCounters : Stats'[f] >= Stats[f]]_vars

\* two Gets of one key have returned: one ran the load body, the other
\* joined it or hit the cache in its re-check
C40_Witness ==
    /\ \A p \in Procs : Idle(p) /\ op[p].kind = "Get" /\ ~op[p].nilDest
    /\ Stats.Gets = 2 /\ Stats.Loads = 2
    /\ Stats.LoadsDeduped = 1
    /\ Stats.LocalLoads + Stats.PeerLoads = 1

====
